---- MODULE Spec2Model ----
(***************************************************************************)
(* A model of the race simulation core of Unikart: the drift-boost state   *)
(* machine, kart progress (laps), the race manager tick, the item boxes    *)
(* and the collision resolver.                                             *)
(*                                                                         *)
(* Numbers.  The program computes in floating point; the model computes in *)
(* exact integer arithmetic on scaled quantities:                          *)
(*   - drift times are in milliseconds (0.35 s = 350),                     *)
(*   - multipliers are in hundredths (1.35 = 135),                         *)
(*   - spline parameters are in hundredths of a lap (0.95 = 95),           *)
(*   - race-manager clocks are in whole time steps.                        *)
(* Floating-point rounding is outside the model.                           *)
(***************************************************************************)
EXTENDS Integers, Sequences, FiniteSets, TLC

VARIABLES
  drift,      \* the DriftBoost object under test
  dpre,       \* history: state, tier and chargeTime before the last operation
  dop,        \* history: the last DriftBoost operation
  held,       \* history: sum of the dt of the updates since the state was entered
  zoneSeen,   \* history: an update of the current state ran inside a drift zone
  kart,       \* the race-progress fields of one Kart
  lapClock,   \* the race time handed to that kart's updateProgress
  kpre,       \* history: the kart before the last tick
  trail,      \* history: the last 4 spline parameters fed, the lap after and finished before each
  fwdOnly,    \* history: every spline parameter fed so far advanced on the previous one
  karts,          \* RaceManager.karts: kart index -> race-progress fields
  raceTime,       \* RaceManager.raceTime
  countdownTime,  \* RaceManager.countdownTime
  isCountingDown, \* RaceManager.isCountingDown
  isFinished,     \* RaceManager.isFinished
  positions,      \* RaceManager.positions: kart index -> rank
  emitted,        \* history: the events emitted by the last update, in order
  evCount,        \* history: how often each event has been emitted
  integrated,     \* history: how many ticks integrated the karts (physics, progress)
  rpre,           \* history: phase and clock before the last update
  touched,        \* history: the last update changed a kart or the positions
  sent,           \* history: the positions sent with player-finished so far
  heldItem,   \* Kart.heldItem of each kart
  boxes,      \* ItemSystem.boxes
  granted,    \* history: items assigned to each kart since it last used one
  ilog,       \* history: the last ItemSystem operation, the items held before
              \* it, the boxes that were active in it and the pickups it made
  pk,         \* the physics fields of each kart (speed, effect timers, drift)
  plog,       \* history: the last operation on pk and, for a tick, the speeds
              \* after the physics, the karts pushed by a barrier, the speeds
              \* after the barrier phase and the karts separated from another
  sk,         \* the steering fields of one kart (gustTimer, drift, steerAngle)
  slog,       \* history: the last operation on sk, gustTimer before it and the
              \* turn it made
  call,       \* the function called last and its arguments
  ret,        \* what that call returned
  tk,         \* one kart followed over the frames of a turbo
  tlog,       \* history: the last operation on tk, the frames ticked since
              \* turbo was last used and effectiveMaxSpeed / maxSpeed of the
              \* last updatePhysics, in hundredths
  bsys,       \* ButterflySystem: butterflies, nextId, and the history of the
              \* ids issued
  scene,      \* SceneManager: butterflyMeshes (their ids), knownButterflyCount
  boxIssued,  \* history: the ids the ItemSystem constructor gave its boxes
  blog,       \* history: the last butterfly operation
  cpu,        \* one AiController, its kart's DriftBoost and the race time
  clog        \* history: the last AI tick and the tier a release found

driftVars == <<drift, dpre, dop, held, zoneSeen>>
lapVars == <<kart, lapClock, kpre, trail, fwdOnly>>
raceVars == <<karts, raceTime, countdownTime, isCountingDown, isFinished,
              positions, emitted, evCount, integrated, rpre, touched, sent>>
itemVars == <<heldItem, boxes, granted, ilog>>
tickVars == <<pk, plog>>
steerVars == <<sk, slog>>
callVars == <<call, ret>>
turboVars == <<tk, tlog>>
butterflyVars == <<bsys, scene, boxIssued, blog>>
aiVars == <<cpu, clog>>
vars == <<driftVars, lapVars, raceVars, itemVars, tickVars, steerVars, callVars, turboVars, butterflyVars, aiVars>>

\* what the operations of one component leave alone
notDrift == <<lapVars, raceVars, itemVars, tickVars, steerVars, callVars, turboVars, butterflyVars, aiVars>>
notLap == <<driftVars, raceVars, itemVars, tickVars, steerVars, callVars, turboVars, butterflyVars, aiVars>>
notRace == <<driftVars, lapVars, itemVars, tickVars, steerVars, callVars, turboVars, butterflyVars, aiVars>>
notItem == <<driftVars, lapVars, raceVars, tickVars, steerVars, callVars, turboVars, butterflyVars, aiVars>>
notTick == <<driftVars, lapVars, raceVars, itemVars, steerVars, callVars, turboVars, butterflyVars, aiVars>>
notSteer == <<driftVars, lapVars, raceVars, itemVars, tickVars, callVars, turboVars, butterflyVars, aiVars>>
notCall == <<driftVars, lapVars, raceVars, itemVars, tickVars, steerVars, turboVars, butterflyVars, aiVars>>
notTurbo == <<driftVars, lapVars, raceVars, itemVars, tickVars, steerVars, callVars, butterflyVars, aiVars>>
notButterfly == <<driftVars, lapVars, raceVars, itemVars, tickVars, steerVars, callVars, turboVars, aiVars>>
notAi == <<driftVars, lapVars, raceVars, itemVars, tickVars, steerVars, callVars, turboVars, butterflyVars>>

(***************************************************************************)
(* config/constants.ts                                                     *)
(***************************************************************************)
DRIFT_TIER_THRESHOLDS == <<350, 700, 1050>>
DRIFT_BOOST_DURATIONS == <<0, 700, 1100, 1500>>    \* tier 0/1/2/3 at index tier+1
DRIFT_BOOST_MULTIPLIER == 135
DRIFT_ZONE_CHARGE_MULTIPLIER == 150
DRIFT_COOLDOWN == 150

(***************************************************************************)
(* Bounds of the drift model.                                              *)
(***************************************************************************)
MaxCharge == 1100            \* charging is not updated once chargeTime exceeds this
Dts == {150, 1060}   \* the dt values fed to update (ms, all even)

(***************************************************************************)
(* physics/drift-boost.ts                                                  *)
(***************************************************************************)
NewDriftBoost ==
  [state |-> "idle", tier |-> 0, chargeTime |-> 0, boostTimeLeft |-> 0,
   cooldownLeft |-> 0, driftDirection |-> 0]

isCharging(d) == d.state = "charging"
isBoosting(d) == d.state = "boosting"
speedMultiplier(d) == IF d.state = "boosting" THEN DRIFT_BOOST_MULTIPLIER ELSE 100

startDrift(d, steerDir) ==
  IF d.state # "idle" THEN d
  ELSE [d EXCEPT !.state = "charging", !.chargeTime = 0, !.tier = 0,
                 !.driftDirection = IF steerDir >= 0 THEN 1 ELSE -1]

\* mutant of TierAdvance: the chain is tried lowest tier first
TierAdvance_lowestFirst(tier, chargeTime) ==
  IF chargeTime >= DRIFT_TIER_THRESHOLDS[1] /\ tier < 1 THEN 1
  ELSE IF chargeTime >= DRIFT_TIER_THRESHOLDS[2] /\ tier < 2 THEN 2
  ELSE IF chargeTime >= DRIFT_TIER_THRESHOLDS[3] /\ tier < 3 THEN 3
  ELSE tier

\* the tier after the tier-advancement chain of update, for the new chargeTime
TierAdvance(tier, chargeTime) ==
  IF chargeTime >= DRIFT_TIER_THRESHOLDS[3] /\ tier < 3 THEN 3
  ELSE IF chargeTime >= DRIFT_TIER_THRESHOLDS[2] /\ tier < 2 THEN 2
  ELSE IF chargeTime >= DRIFT_TIER_THRESHOLDS[1] /\ tier < 1 THEN 1
  ELSE tier

ChargeGain(dt, inDriftZone) ==
  IF inDriftZone THEN (dt * DRIFT_ZONE_CHARGE_MULTIPLIER) \div 100 ELSE dt

\* mutant of update: a boost or cooldown that reaches exactly 0 does not end
update_strictExpiry(d, dt, inDriftZone) ==
  CASE d.state = "charging" ->
         LET ct == d.chargeTime + ChargeGain(dt, inDriftZone)
         IN  [d EXCEPT !.chargeTime = ct, !.tier = TierAdvance(d.tier, ct)]
    [] d.state = "boosting" ->
         LET left == d.boostTimeLeft - dt
         IN  IF left < 0
             THEN [d EXCEPT !.boostTimeLeft = left, !.state = "cooldown",
                            !.cooldownLeft = DRIFT_COOLDOWN]
             ELSE [d EXCEPT !.boostTimeLeft = left]
    [] d.state = "cooldown" ->
         LET left == d.cooldownLeft - dt
         IN  IF left < 0
             THEN [d EXCEPT !.cooldownLeft = left, !.state = "idle"]
             ELSE [d EXCEPT !.cooldownLeft = left]
    [] OTHER -> d

update(d, dt, inDriftZone) ==
  CASE d.state = "charging" ->
         LET ct == d.chargeTime + ChargeGain(dt, inDriftZone)
         IN  [d EXCEPT !.chargeTime = ct, !.tier = TierAdvance(d.tier, ct)]
    [] d.state = "boosting" ->
         LET left == d.boostTimeLeft - dt
         IN  IF left <= 0
             THEN [d EXCEPT !.boostTimeLeft = left, !.state = "cooldown",
                            !.cooldownLeft = DRIFT_COOLDOWN]
             ELSE [d EXCEPT !.boostTimeLeft = left]
    [] d.state = "cooldown" ->
         LET left == d.cooldownLeft - dt
         IN  IF left <= 0
             THEN [d EXCEPT !.cooldownLeft = left, !.state = "idle"]
             ELSE [d EXCEPT !.cooldownLeft = left]
    [] OTHER -> d

\* mutant of release: the tier is cleared when the drift is released
release_resetTier(d) ==
  IF d.state # "charging" THEN d
  ELSE LET duration == DRIFT_BOOST_DURATIONS[d.tier + 1]
       IN  IF duration > 0
           THEN [d EXCEPT !.state = "boosting", !.boostTimeLeft = duration,
                          !.driftDirection = 0, !.tier = 0]
           ELSE [d EXCEPT !.state = "cooldown", !.cooldownLeft = DRIFT_COOLDOWN,
                          !.driftDirection = 0, !.tier = 0]

release(d) ==
  IF d.state # "charging" THEN d
  ELSE LET duration == DRIFT_BOOST_DURATIONS[d.tier + 1]
       IN  IF duration > 0
           THEN [d EXCEPT !.state = "boosting", !.boostTimeLeft = duration,
                          !.driftDirection = 0]
           ELSE [d EXCEPT !.state = "cooldown", !.cooldownLeft = DRIFT_COOLDOWN,
                          !.driftDirection = 0]

\* mutant of cancel: the drift is dropped without a cooldown
cancel_toIdle(d) ==
  [d EXCEPT !.state = "idle", !.tier = 0, !.chargeTime = 0, !.driftDirection = 0]

\* mutant of cancel: a boost in progress is not interrupted
cancel_keepBoost(d) ==
  IF d.state = "boosting" THEN [d EXCEPT !.tier = 0, !.chargeTime = 0, !.driftDirection = 0]
  ELSE [d EXCEPT !.state = "cooldown", !.cooldownLeft = DRIFT_COOLDOWN, !.tier = 0,
                 !.chargeTime = 0, !.driftDirection = 0]

cancel(d) ==
  [d EXCEPT !.state = "cooldown", !.cooldownLeft = DRIFT_COOLDOWN, !.tier = 0,
            !.chargeTime = 0, !.driftDirection = 0]

\* the history fields kept of a DriftBoost
Pre(d) == [state |-> d.state, tier |-> d.tier, chargeTime |-> d.chargeTime]

\* the DriftBoost variables of a specification that does not use them
DriftIdle ==
  /\ drift = NewDriftBoost
  /\ dpre = Pre(NewDriftBoost)
  /\ dop = "new"
  /\ held = 0
  /\ zoneSeen = FALSE

(***************************************************************************)
(* physics/kart.ts: race progress.  Spline parameters are in hundredths of *)
(* a lap, raceProgress = lap + checkpoint is in hundredths too, the race   *)
(* time is in time steps.                                                  *)
(***************************************************************************)
TOTAL_LAPS == 3

\* the race-progress fields after the constructor
NewKart ==
  [lap |-> 0, checkpoint |-> 0, lastCheckpoint |-> 0, raceProgress |-> 0,
   finished |-> FALSE, finishTime |-> 0, lapTimes |-> <<>>, lapStartTime |-> 0]

placeOnGrid(k, splineT) ==
  [k EXCEPT !.lap = 0, !.checkpoint = splineT, !.lastCheckpoint = splineT,
            !.raceProgress = 0, !.finished = FALSE, !.finishTime = 0,
            !.lapTimes = <<>>]

pop(s) == IF Len(s) = 0 THEN s ELSE SubSeq(s, 1, Len(s) - 1)

\* mutant of updateProgress: the wrong-way crossing is not detected
updateProgress_noWrongWay(k, splineT, atTime) ==
  LET fed == [k EXCEPT !.lastCheckpoint = k.checkpoint, !.checkpoint = splineT]
      inc == fed.lastCheckpoint > 90 /\ fed.checkpoint < 10 /\ ~fed.finished
      lap == IF inc THEN fed.lap + 1 ELSE fed.lap
  IN  [fed EXCEPT !.lap = lap,
                  !.lapTimes = IF inc THEN Append(fed.lapTimes, atTime - fed.lapStartTime)
                               ELSE fed.lapTimes,
                  !.lapStartTime = IF inc THEN atTime ELSE fed.lapStartTime,
                  !.raceProgress = lap * 100 + splineT]

\* mutant of updateProgress: a lap is completed only from beyond 0.95
updateProgress_lateLine(k, splineT, atTime) ==
  LET fed == [k EXCEPT !.lastCheckpoint = k.checkpoint, !.checkpoint = splineT]
      inc == fed.lastCheckpoint > 95 /\ fed.checkpoint < 10 /\ ~fed.finished
      dec == fed.lastCheckpoint < 10 /\ fed.checkpoint > 90 /\ fed.lap > 0
      lap == IF inc THEN fed.lap + 1 ELSE IF dec THEN fed.lap - 1 ELSE fed.lap
  IN  [fed EXCEPT !.lap = lap,
                  !.lapTimes = IF inc THEN Append(fed.lapTimes, atTime - fed.lapStartTime)
                               ELSE IF dec THEN pop(fed.lapTimes) ELSE fed.lapTimes,
                  !.lapStartTime = IF inc THEN atTime ELSE fed.lapStartTime,
                  !.raceProgress = lap * 100 + splineT]

\* updateProgress, first statements: remember the previous parameter
feedCheckpoint(k, splineT) ==
  [k EXCEPT !.lastCheckpoint = k.checkpoint, !.checkpoint = splineT]

\* updateProgress, lap completion (crossed from ~1.0 back to ~0.0)
lapCompletion(k, atTime) ==
  IF k.lastCheckpoint > 90 /\ k.checkpoint < 10 /\ ~k.finished
  THEN [k EXCEPT !.lap = k.lap + 1,
                 !.lapTimes = Append(k.lapTimes, atTime - k.lapStartTime),
                 !.lapStartTime = atTime]
  ELSE k

\* mutant of wrongWay: the lap is taken back, its time is kept
wrongWay_keepTime(k) ==
  IF k.lastCheckpoint < 10 /\ k.checkpoint > 90 /\ k.lap > 0
  THEN [k EXCEPT !.lap = k.lap - 1]
  ELSE k

\* updateProgress, wrong way (crossed from ~0.0 back to ~1.0)
wrongWay(k) ==
  IF k.lastCheckpoint < 10 /\ k.checkpoint > 90 /\ k.lap > 0
  THEN [k EXCEPT !.lap = k.lap - 1, !.lapTimes = pop(k.lapTimes)]
  ELSE k

\* updateProgress, last statement
setRaceProgress(k) == [k EXCEPT !.raceProgress = k.lap * 100 + k.checkpoint]

updateProgress(k, splineT, atTime) ==
  setRaceProgress(wrongWay(lapCompletion(feedCheckpoint(k, splineT), atTime)))

\* mutant of finishes: the kart's finished flag is not consulted
finishes_noGuard(k) == k.lap >= TOTAL_LAPS

\* RaceManager.update, the condition of the finish detection
finishes(k) == k.lap >= TOTAL_LAPS /\ ~k.finished

\* mutant of detectFinish: a finished kart is stamped again in every tick
detectFinish_restamp(k, atTime) ==
  IF k.lap >= TOTAL_LAPS
  THEN [k EXCEPT !.finished = TRUE, !.finishTime = atTime]
  ELSE k

\* RaceManager.update, finish detection for one kart
detectFinish(k, atTime) ==
  IF finishes(k)
  THEN [k EXCEPT !.finished = TRUE, !.finishTime = atTime]
  ELSE k

\* the variables of a specification that does not use them
LapIdle ==
  /\ kart = NewKart
  /\ lapClock = 0
  /\ kpre = NewKart
  /\ trail = <<>>
  /\ fwdOnly = TRUE

RaceIdle ==
  /\ karts = <<>>
  /\ raceTime = 0
  /\ countdownTime = 0
  /\ isCountingDown = FALSE
  /\ isFinished = FALSE
  /\ positions = <<>>
  /\ emitted = <<>>
  /\ evCount = <<>>
  /\ integrated = 0
  /\ rpre = <<>>
  /\ touched = FALSE
  /\ sent = <<>>

ItemIdle ==
  /\ heldItem = <<>>
  /\ boxes = <<>>
  /\ granted = <<>>
  /\ ilog = <<>>

TickIdle ==
  /\ pk = <<>>
  /\ plog = <<>>

SteerIdle ==
  /\ sk = <<>>
  /\ slog = <<>>

CallIdle ==
  /\ call = <<>>
  /\ ret = <<>>

TurboIdle ==
  /\ tk = <<>>
  /\ tlog = <<>>

ButterflyIdle ==
  /\ bsys = <<>>
  /\ scene = <<>>
  /\ boxIssued = <<>>
  /\ blog = <<>>

AiIdle ==
  /\ cpu = <<>>
  /\ clog = <<>>

(***************************************************************************)
(* One kart driven through race ticks: each tick the race clock advances,  *)
(* the kart is fed the spline parameter of its new position, and the       *)
(* finish detection runs (the part of RaceManager.update that concerns the *)
(* progress of one kart).  The position is free: any parameter of          *)
(* Checkpoints may be fed.                                                 *)
(***************************************************************************)
MaxLapTicks == 12                    \* ticks explored
Checkpoints == {2, 5, 50, 95, 98}    \* spline parameters fed
GridT == 5                           \* RaceManager.placeOnGrid: startT = 0.05

\* t is ahead of prev: further along by less than half a lap, or across the
\* start line from > 0.9 to < 0.1
Advances(prev, t) ==
  \/ prev <= t /\ t - prev < 50
  \/ prev > 90 /\ t < 10

LapInit ==
  /\ DriftIdle
  /\ RaceIdle
  /\ ItemIdle
  /\ TickIdle
  /\ SteerIdle
  /\ CallIdle
  /\ TurboIdle
  /\ ButterflyIdle
  /\ AiIdle
  /\ kart = placeOnGrid(NewKart, GridT)
  /\ lapClock = 0
  /\ kpre = placeOnGrid(NewKart, GridT)
  /\ trail = <<>>
  /\ fwdOnly = TRUE

LastN(s, n) == IF Len(s) <= n THEN s ELSE SubSeq(s, Len(s) - n + 1, Len(s))

LapTick ==
  /\ lapClock < MaxLapTicks
  /\ \E t \in Checkpoints :
       LET now == lapClock + 1
           k == detectFinish(updateProgress(kart, t, now), now)
       IN  /\ lapClock' = now
           /\ kpre' = kart
           /\ kart' = k
           /\ trail' = LastN(Append(trail, [t |-> t, lap |-> k.lap,
                                            fin |-> kart.finished]), 4)
           /\ fwdOnly' = (fwdOnly /\ Advances(kart.checkpoint, t))
  /\ UNCHANGED notLap

LapNext == LapTick

SpecLap == LapInit /\ [][LapNext]_vars

(***************************************************************************)
(* Claims about Kart.updateProgress (checked under SpecLap).               *)
(***************************************************************************)
\* the last four spline parameters fed were ts, in this order
Fed(ts) == Len(trail) = 4 /\ \A i \in 1..4 : trail[i].t = ts[i]

\* the last tick changed the lap only by a wrap: +1 from > 0.9 to < 0.1,
\* -1 from < 0.1 to > 0.9
LapChangeOnlyOnWrap ==
  kart.lap # kpre.lap =>
    \/ kpre.checkpoint > 90 /\ kart.checkpoint < 10 /\ kart.lap = kpre.lap + 1
    \/ kpre.checkpoint < 10 /\ kart.checkpoint > 90 /\ kart.lap = kpre.lap - 1

C8_ProgressMonotoneAnyKart ==
  fwdOnly => kart.raceProgress >= kpre.raceProgress

\* C8 (amended): the same for a kart that had not finished before the call;
\* a finished kart no longer gains a lap at the start line, so there its
\* raceProgress falls.
C8_ProgressMonotoneUnfinished ==
  (fwdOnly /\ ~kpre.finished) => kart.raceProgress >= kpre.raceProgress

\* C8 witness: a kart that only advanced has just crossed the start line
\* into its third lap.
C8_Witness ==
  /\ fwdOnly /\ ~kart.finished /\ kart.lap = 2
  /\ kpre.checkpoint > 90 /\ kart.checkpoint < 10
  /\ kart.raceProgress > kpre.raceProgress

\* C29: the lap count of the kart is never negative and the kart has
\* exactly one recorded lap time per lap counted.
C29_OneLapTimePerLap ==
  /\ kart.lap >= 0
  /\ Len(kart.lapTimes) = kart.lap

\* C29 witness: a kart that finished was taken back over the line the
\* wrong way by the last tick: a lap and its time are gone.
C29_Witness ==
  /\ kart.finished /\ kpre.finished
  /\ kart.lap = kpre.lap - 1
  /\ Len(kart.lapTimes) = TOTAL_LAPS - 1

RECURSIVE SumSeq(_)
SumSeq(q) == IF q = <<>> THEN 0 ELSE Head(q) + SumSeq(Tail(q))

\* C30: at the tick that marks the kart finished, its recorded lap times
\* add up to its finishTime.
C30_LapTimesAddUp ==
  (kart.finished /\ ~kpre.finished) => SumSeq(kart.lapTimes) = kart.finishTime

(***************************************************************************)
(* gameplay/race-manager.ts.  The clocks are in time steps (dt = 1,        *)
(* COUNTDOWN_DURATION of them for the countdown).  A tick integrates the   *)
(* karts, resolves collisions and then reads each kart's spline parameter  *)
(* off its position: the model leaves the positions free, so each kart's   *)
(* parameter is any value of RaceTs.  Items and butterflies touch no field *)
(* read here.                                                              *)
(***************************************************************************)
COUNTDOWN_DURATION == 3
NumKarts == 2                 \* karts in the race (TOTAL_RACERS = 8 in the program)
MaxRaceTicks == 11            \* racing ticks explored
RaceDt == 1                   \* the dt of every update
RaceTs == {5, 50, 95}         \* spline parameters a kart can be at after a tick
humanKartIndex == 0

KartIds == 0..(NumKarts - 1)

Phase(counting, finished) ==
  IF counting THEN "countdown" ELSE IF finished THEN "finished" ELSE "racing"

\* mutant of compare: the karts are compared on raceProgress alone
compare_progressOnly(ks, a, b) == ks[b].raceProgress - ks[a].raceProgress

\* the comparator of updatePositions on two kart indices
compare(ks, a, b) ==
  IF ks[a].finished /\ ks[b].finished THEN ks[a].finishTime - ks[b].finishTime
  ELSE IF ks[a].finished THEN -1
  ELSE IF ks[b].finished THEN 1
  ELSE ks[b].raceProgress - ks[a].raceProgress

\* a comes before b in the sorted array (Array.prototype.sort is stable)
Before(ks, a, b) ==
  LET c == compare(ks, a, b) IN c < 0 \/ (c = 0 /\ a < b)

updatePositions(ks) ==
  [i \in DOMAIN ks |-> Cardinality({j \in DOMAIN ks : Before(ks, j, i)})]

Snapshot == [phase |-> Phase(isCountingDown, isFinished), raceTime |-> raceTime]

\* The fields of a kart that RaceManager reads.  lapTimes and lapStartTime
\* are written by updateProgress and read by nothing in the tick (and by no
\* other field of updateProgress), so the race keeps them at their initial
\* values; SpecLap follows them on one kart.
RaceFields(k) == [k EXCEPT !.lapTimes = <<>>, !.lapStartTime = 0]

\* the state after the constructor
RaceInitWith(ids) ==
  /\ DriftIdle
  /\ LapIdle
  /\ ItemIdle
  /\ TickIdle
  /\ SteerIdle
  /\ CallIdle
  /\ TurboIdle
  /\ ButterflyIdle
  /\ AiIdle
  /\ karts = [i \in ids |-> placeOnGrid(NewKart, GridT)]
  /\ raceTime = 0
  /\ countdownTime = COUNTDOWN_DURATION
  /\ isCountingDown = TRUE
  /\ isFinished = FALSE
  /\ positions = [i \in ids |-> i]
  /\ emitted = <<>>
  /\ evCount = [e \in {"race-start", "player-finished", "race-finished"} |-> 0]
  /\ integrated = 0
  /\ rpre = [phase |-> "countdown", raceTime |-> 0]
  /\ touched = FALSE
  /\ sent = <<>>

RaceInit == RaceInitWith(KartIds)

Emit(evs) ==
  /\ emitted' = evs
  /\ evCount' = [e \in DOMAIN evCount |->
                   evCount[e] + Cardinality({n \in 1..Len(evs) : evs[n][1] = e})]
  /\ sent' = IF evs # <<>> /\ evs[1][1] = "player-finished"
             THEN Append(sent, evs[1][2]) ELSE sent

\* update while counting down
CountdownTick ==
  /\ isCountingDown
  /\ rpre' = Snapshot
  /\ touched' = FALSE
  /\ countdownTime' = countdownTime - RaceDt
  /\ IF countdownTime - RaceDt <= 0
     THEN isCountingDown' = FALSE /\ Emit(<< <<"race-start", 0>> >>)
     ELSE isCountingDown' = TRUE /\ Emit(<<>>)
  /\ UNCHANGED <<karts, raceTime, isFinished, positions, integrated>>
  /\ UNCHANGED notRace

\* update after the race is finished
FinishedTick ==
  /\ ~isCountingDown /\ isFinished
  /\ rpre' = Snapshot
  /\ touched' = FALSE
  /\ Emit(<<>>)
  /\ UNCHANGED <<karts, raceTime, countdownTime, isCountingDown, isFinished,
                 positions, integrated>>
  /\ UNCHANGED notRace

\* the events of a racing tick: moved are the karts before and done the karts
\* after the finish detection, pos the positions
tickEvents(moved, done, pos) ==
  (IF finishes(moved[humanKartIndex])
   THEN << <<"player-finished", pos[humanKartIndex]>> >> ELSE <<>>)
  \o (IF \A i \in DOMAIN done : done[i].finished
      THEN << <<"race-finished", 0>> >> ELSE <<>>)

\* update while racing; ts are the spline parameters of the karts after
\* integration and collision resolution, that of kart i drawn from TsOf[i]
RacingTickOver(TsOf) ==
  /\ raceTime < MaxRaceTicks
  /\ \E ts \in {f \in [DOMAIN karts -> UNION {TsOf[i] : i \in DOMAIN karts}] :
                    \A i \in DOMAIN karts : f[i] \in TsOf[i]} :
     \E moved \in {[i \in DOMAIN karts |->
                     RaceFields(updateProgress(karts[i], ts[i], raceTime + RaceDt))]} :
     \E pos \in {updatePositions(moved)} :
     \E done \in {[i \in DOMAIN karts |-> detectFinish(moved[i], raceTime + RaceDt)]} :
       /\ rpre' = Snapshot
       /\ touched' = (done # karts \/ pos # positions)
       /\ raceTime' = raceTime + RaceDt
       /\ karts' = done
       /\ positions' = pos
       /\ isFinished' = \A i \in DOMAIN done : done[i].finished
       /\ integrated' = integrated + 1
       /\ Emit(tickEvents(moved, done, pos))
  /\ UNCHANGED <<countdownTime, isCountingDown>>
  /\ UNCHANGED notRace

RacingTick ==
  /\ ~isCountingDown /\ ~isFinished
  /\ RacingTickOver([i \in KartIds |-> RaceTs])

RaceNext == CountdownTick \/ FinishedTick \/ RacingTick

SpecRace == RaceInit /\ [][RaceNext]_vars

\* the race with one more kart, which stays on the grid, and with the
\* others able to cross the line close together: two spline parameters
\* just past the line
PhotoIds == 0 .. NumKarts
CloseTs == {2, 5, 50, 95}

CloseTick ==
  /\ ~isCountingDown /\ ~isFinished
  /\ RacingTickOver([i \in PhotoIds |-> IF i \in KartIds THEN CloseTs ELSE {GridT}])

PhotoFinishInit == RaceInitWith(PhotoIds)

\* with a kart on the grid the race does not reach its finished phase
PhotoFinishNext == CountdownTick \/ CloseTick

SpecPhotoFinish == PhotoFinishInit /\ [][PhotoFinishNext]_vars

\* C4: after every tick positions is a permutation of the kart indices in
\* which every finished kart is ahead of every unfinished one, finished karts
\* are in ascending finishTime and unfinished karts in descending
\* raceProgress.
C4_PositionsRanking ==
  /\ {positions[i] : i \in KartIds} = KartIds
  /\ \A i, j \in KartIds :
       /\ (karts[i].finished /\ ~karts[j].finished) => positions[i] < positions[j]
       /\ (karts[i].finished /\ karts[j].finished
            /\ karts[i].finishTime < karts[j].finishTime)
          => positions[i] < positions[j]
       /\ (~karts[i].finished /\ ~karts[j].finished
            /\ karts[i].raceProgress > karts[j].raceProgress)
          => positions[i] < positions[j]

\* C4 witness: a racing tick has ranked a finished kart ahead of an
\* unfinished kart of higher raceProgress.
C4_Witness ==
  /\ rpre.phase = "racing"
  /\ \E i, j \in KartIds :
       /\ karts[i].finished /\ ~karts[j].finished
       /\ karts[i].raceProgress < karts[j].raceProgress
       /\ positions[i] < positions[j]

PhaseRank(p) == CASE p = "countdown" -> 0 [] p = "racing" -> 1 [] p = "finished" -> 2

Emitted(e) == \E n \in 1..Len(emitted) : emitted[n][1] = e

\* C10: the phase never moves back; a tick outside the racing phase changes
\* neither the karts, the positions nor the race clock, and the clock has
\* advanced once per racing tick; race-start has been emitted once, by the
\* tick that ended the countdown; player-finished and race-finished have
\* been emitted at most once, race-finished by the tick that made every kart
\* finished.
C10_PhasesForward ==
  /\ PhaseRank(Phase(isCountingDown, isFinished)) >= PhaseRank(rpre.phase)
  /\ rpre.phase # "racing" => (~touched /\ raceTime = rpre.raceTime)
  /\ raceTime = integrated * RaceDt
  /\ evCount["race-start"] = (IF isCountingDown THEN 0 ELSE 1)
  /\ Emitted("race-start") <=> (rpre.phase = "countdown" /\ ~isCountingDown)
  /\ evCount["player-finished"] <= 1
  /\ evCount["race-finished"] = (IF isFinished THEN 1 ELSE 0)
  /\ Emitted("race-finished") <=> (rpre.phase = "racing" /\ isFinished)
  /\ isFinished <=> \A i \in KartIds : karts[i].finished

\* C10 witness: the race went through the three phases, each event was
\* emitted once and a tick of the finished phase has just run.
C10_Witness ==
  /\ rpre.phase = "finished" /\ isFinished
  /\ \A e \in DOMAIN evCount : evCount[e] = 1
  /\ emitted = <<>>

\* C20: in every step, a kart not yet finished whose lap is >= TOTAL_LAPS
\* after the step is finished by it, a kart becomes finished only with
\* lap >= TOTAL_LAPS and with finishTime the race clock of that tick, and a
\* finished kart stays finished with the same finishTime whatever its lap
\* and checkpoint do.
C20_FinishOnceForGood ==
  [][\A i \in KartIds :
       /\ (~karts[i].finished /\ karts'[i].lap >= TOTAL_LAPS) => karts'[i].finished
       /\ (~karts[i].finished /\ karts'[i].finished) =>
            (karts'[i].lap >= TOTAL_LAPS /\ karts'[i].finishTime = raceTime')
       /\ karts[i].finished =>
            (karts'[i].finished /\ karts'[i].finishTime = karts[i].finishTime)]_vars

\* C20 witness: a kart that finished in an earlier tick has since crossed
\* the line backwards (its lap is below TOTAL_LAPS again) while the race
\* goes on.
C20_Witness ==
  /\ rpre.phase = "racing"
  /\ \E i \in KartIds :
       /\ karts[i].finished
       /\ karts[i].finishTime < raceTime
       /\ karts[i].lap < TOTAL_LAPS

\* C28: once player-finished has been emitted, the position it carried is
\* the human kart's entry in positions at the end of every tick.
C28_SentRankIsFinal ==
  Len(sent) > 0 => positions[humanKartIndex] = sent[1]

(***************************************************************************)
(* gameplay/item-system.ts.  Times are in seconds.  Where the karts are is *)
(* left free: each updatePickups is given, for every kart, the set of      *)
(* boxes within PICKUP_RADIUS of it (boxes are 5 apart and the radius is   *)
(* 3, so a kart can be within reach of two boxes), and the item each kart  *)
(* would roll (every item has a positive weight at every position).        *)
(***************************************************************************)
RESPAWN_TIME == 5
NumBoxes == 2                 \* item boxes on the track (9 in the program)
ItemDts == {3, 5}             \* the dt of an updatePickups
ItemIds == {"gust", "wobble", "turbo"}
NoItem == "null"

BoxIds == 1..NumBoxes

\* the boxes after the constructor
NewItemSystem == [b \in BoxIds |-> [active |-> TRUE, respawnTimer |-> 0]]

\* updatePickups: tick respawn timers
tickRespawn(bx, dt) ==
  [b \in BoxIds |->
     IF ~bx[b].active
     THEN [active |-> bx[b].respawnTimer - dt <= 0,
           respawnTimer |-> bx[b].respawnTimer - dt]
     ELSE bx[b]]

\* mutant of skipsKart: a kart that holds an item is not skipped
skipsKart_never(item) == FALSE

\* updatePickups: a kart that holds an item is skipped
skipsKart(item) == item # NoItem

\* updatePickups: the first active box within reach, 0 when there is none
firstBox(bx, reach) ==
  LET c == {b \in BoxIds : bx[b].active /\ b \in reach}
  IN IF c = {} THEN 0 ELSE CHOOSE b \in c : \A o \in c : b <= o

\* config/tracks.ts, ITEMS in order
ITEMS ==
  << [id |-> "gust", backWeight |-> 1], [id |-> "wobble", backWeight |-> 2],
     [id |-> "turbo", backWeight |-> 3] >>

PositionSpan == 7                           \* rollItem: position / 7
RollGrain == 2                              \* roll values per seventh of weight

\* mutant of weight: the position does not count
weight_flat(i, position) == RollGrain * PositionSpan

\* rollItem: weights[i] = 1 + backWeight * (position / 7) * 2, in units of
\* 1 / (7 * RollGrain)
weight(i, position) == RollGrain * (PositionSpan + ITEMS[i].backWeight * position * 2)

RECURSIVE sumWeights(_, _)
sumWeights(i, position) ==
  IF i = 0 THEN 0 ELSE sumWeights(i - 1, position) + weight(i, position)

\* rollItem: totalWeight
totalWeightAt(position) == sumWeights(Len(ITEMS), position)

\* rollItem: the values of Math.random() * totalWeight, in the same units
Rolls(position) == 0 .. (totalWeightAt(position) - 1)

\* rollItem: the loop over ITEMS from the i-th on, and the fallback
RECURSIVE rollLoop(_, _, _)
rollLoop(i, roll, position) ==
  IF i > Len(ITEMS) THEN ITEMS[1].id
  ELSE IF roll - weight(i, position) <= 0 THEN ITEMS[i].id
  ELSE rollLoop(i + 1, roll - weight(i, position), position)

\* rollItem with Math.random() * totalWeight = roll
rollItemAt(position, roll) == rollLoop(1, roll, position)

\* rollItem: the items it can return at a position
rollItem(position) == {rollItemAt(position, roll) : roll \in Rolls(position)}

\* mutant of pickUp: the box stays active
pickUp_staysActive(st, i, b, item) ==
  [held |-> [st.held EXCEPT ![i] = item],
   boxes |-> st.boxes,
   picked |-> st.picked \cup {<<i, b>>}]

\* one pickup: kart i takes box b and is given the item
pickUp(st, i, b, item) ==
  [held |-> [st.held EXCEPT ![i] = item],
   boxes |-> [st.boxes EXCEPT ![b] = [active |-> FALSE, respawnTimer |-> RESPAWN_TIME]],
   picked |-> st.picked \cup {<<i, b>>}]

\* updatePickups: the body of the proximity loop for kart i, the set of
\* outcomes over the item rolled
kartPickup(st, i, reach, position) ==
  LET b == IF skipsKart(st.held[i]) THEN 0 ELSE firstBox(st.boxes, reach)
  IN IF b = 0 THEN {st}
     ELSE {pickUp(st, i, b, item) : item \in rollItem(position)}

\* updatePickups: the proximity loop from kart i on; sts are the possible
\* items, boxes and pickups made so far
RECURSIVE pickupLoop(_, _, _, _)
pickupLoop(i, sts, near, pos) ==
  IF i > NumKarts - 1 THEN sts
  ELSE pickupLoop(i + 1,
                  UNION {kartPickup(st, i, near[i], pos[i]) : st \in sts},
                  near, pos)

updatePickups(items, bx, dt, near, pos) ==
  pickupLoop(0, {[held |-> items, boxes |-> tickRespawn(bx, dt), picked |-> {}]},
             near, pos)

\* useItem, as far as the held item goes
useItem(items, k) ==
  IF items[k] = NoItem THEN items ELSE [items EXCEPT ![k] = NoItem]

ItemInit ==
  /\ DriftIdle
  /\ LapIdle
  /\ RaceIdle
  /\ TickIdle
  /\ SteerIdle
  /\ CallIdle
  /\ TurboIdle
  /\ ButterflyIdle
  /\ AiIdle
  /\ heldItem = [k \in KartIds |-> NoItem]
  /\ boxes = NewItemSystem
  /\ granted = [k \in KartIds |-> 0]
  /\ ilog = [op |-> "new", held |-> [k \in KartIds |-> NoItem],
             open |-> {}, tempted |-> {}, picked |-> {},
             contested |-> {}, since |-> [b \in BoxIds |-> RESPAWN_TIME]]

\* ilog of an updatePickups: open are the boxes active after the respawn
\* timers were ticked, tempted the karts that held an item within reach of
\* two open boxes, contested the open boxes with two item-less karts within
\* reach; since[b] is the updatePickups time passed since box b was last
\* picked up, followed up to RESPAWN_TIME (its value for a box never picked up)
UpdatePickups ==
  /\ \E dt \in ItemDts, near \in [KartIds -> SUBSET BoxIds],
        pos \in {[k \in KartIds |-> k]} :
     \E r \in updatePickups(heldItem, boxes, dt, near, pos) :
     \E open \in {{b \in BoxIds : tickRespawn(boxes, dt)[b].active}} :
       /\ heldItem' = r.held
       /\ boxes' = r.boxes
       /\ granted' = [k \in KartIds |->
                        granted[k] + Cardinality({b \in BoxIds : <<k, b>> \in r.picked})]
       /\ ilog' = [op |-> "updatePickups", held |-> heldItem, open |-> open,
                   tempted |-> {k \in KartIds :
                                  /\ heldItem[k] # NoItem
                                  /\ Cardinality(near[k] \cap open) >= 2},
                   picked |-> r.picked,
                   contested |-> {b \in open :
                                    Cardinality({k \in KartIds :
                                      heldItem[k] = NoItem /\ b \in near[k]}) >= 2},
                   since |-> [b \in BoxIds |->
                                IF \E k \in KartIds : <<k, b>> \in r.picked THEN 0
                                ELSE IF ilog.since[b] >= RESPAWN_TIME
                                     THEN ilog.since[b]      \* 5 s have passed
                                     ELSE ilog.since[b] + dt]]
  /\ UNCHANGED notItem

UseItem ==
  /\ \E k \in KartIds :
       /\ heldItem' = useItem(heldItem, k)
       /\ granted' = [granted EXCEPT ![k] = 0]
       /\ ilog' = [op |-> "useItem", held |-> heldItem,
                   open |-> {}, tempted |-> {}, picked |-> {},
                   contested |-> {}, since |-> ilog.since]
  /\ UNCHANGED boxes
  /\ UNCHANGED notItem

ItemNext == UpdatePickups \/ UseItem

SpecItems == ItemInit /\ [][ItemNext]_vars

\* C5: an updatePickups leaves the item of every kart that held one as it
\* was and makes no pickup for such a kart, and the boxes it turned off are
\* those of its pickups; no kart has been assigned a second item while it
\* held one.
C5_IdempotentPickup ==
  /\ ilog.op = "updatePickups" =>
       /\ \A k \in KartIds : ilog.held[k] # NoItem =>
            /\ heldItem[k] = ilog.held[k]
            /\ \A b \in BoxIds : <<k, b>> \notin ilog.picked
       /\ \A b \in ilog.open : ~boxes[b].active
            => \E k \in KartIds : <<k, b>> \in ilog.picked /\ ilog.held[k] = NoItem
  /\ \A k \in KartIds :
       /\ granted[k] <= 1
       /\ granted[k] = 1 <=> heldItem[k] # NoItem

\* C5 witness: an updatePickups ran while a kart holding an item was within
\* reach of two active boxes; both boxes are still active.
C5_Witness ==
  /\ ilog.op = "updatePickups"
  /\ ilog.tempted # {}
  /\ \A k \in ilog.tempted : heldItem[k] = ilog.held[k]
  /\ Cardinality({b \in ilog.open : boxes[b].active}) >= 2

\* C26: in one updatePickups no box is picked up by two karts and no kart
\* picks up two boxes; a box picked up is inactive at the end of that tick;
\* a box picked up before is inactive while less than 5 s of updatePickups
\* time have passed since, and active once 5 s or more have passed.
C26_OneItemPerActivation ==
  /\ ilog.op = "updatePickups" =>
       /\ \A b \in BoxIds :
            Cardinality({k \in KartIds : <<k, b>> \in ilog.picked}) <= 1
       /\ \A k \in KartIds :
            Cardinality({b \in BoxIds : <<k, b>> \in ilog.picked}) <= 1
       /\ \A k \in KartIds, b \in BoxIds : <<k, b>> \in ilog.picked =>
            (~boxes[b].active /\ b \in ilog.open /\ ilog.held[k] = NoItem)
  /\ \A b \in BoxIds :
       /\ ilog.since[b] < RESPAWN_TIME => ~boxes[b].active
       /\ ilog.since[b] >= RESPAWN_TIME => boxes[b].active

\* C26 witness: two karts without an item were within reach of the same
\* open box, which one of them picked up, while another box, picked up
\* earlier, is active again.
C26_Witness ==
  /\ ilog.op = "updatePickups"
  /\ \E b \in ilog.contested : \E k \in KartIds : <<k, b>> \in ilog.picked
  /\ \E b \in BoxIds : boxes[b].active /\ boxes[b].respawnTimer < 0

(***************************************************************************)
(* physics/kart.ts, physics/collision.ts and the physics part of           *)
(* RaceManager.update.  Speeds are in thousandths of a unit per second and *)
(* times in frames of 1/60 s, the FIXED_DT the game loop passes; weights   *)
(* and the accelerator input are in tenths, factors in hundredths.         *)
(* Products are rounded down to a whole thousandth.  Where the karts are   *)
(* is left free: each tick is given, for every kart, whether it is on the  *)
(* road, the barrier push it receives (|forward . push|, the push being a  *)
(* unit vector) and the pairs of karts that overlap.  The DriftBoost of a  *)
(* kart is left in any state by the drift block of updatePhysics.  A kart  *)
(* may use any item: which item it holds is left free.                     *)
(***************************************************************************)
FIXED_DT == 1
FramesPerSecond == 60
BASE_MAX_SPEED == 45000
BASE_ACCELERATION == 28000
BASE_BRAKE_FORCE == 40000
BASE_FRICTION == 970                        \* thousandths
DRIFT_FRICTION_MULTIPLIER == 600            \* thousandths
OFFROAD_SPEED_MULTIPLIER == 50
OFFROAD_DURING_BOOST_MULTIPLIER == 75
TurboMaxFactor == 135                       \* getEffectiveMaxSpeed: max *= 1.35
WobbleMaxFactor == 50                       \* getEffectiveMaxSpeed: max *= 0.5
GustAccelFactor == 3                        \* updatePhysics: accelInput *= 0.3
ReverseMaxFactor == 3                       \* updatePhysics: -effectiveMaxSpeed * 0.3
WALL_BOUNCE_FACTOR == 30
KART_BOUNCE_FACTOR == 20
BarrierFloor == 3000                        \* resolveCollisions: Math.max(speed, 3)
BumpFloor == 2000                           \* resolveCollisions: Math.max(speed, 2)
GRACE_PERIOD == 120
Infinity == 2147483647                      \* the default raceTime: above every race time
ITEM_GUST_STEER_LOCK == 36
ITEM_WOBBLE_DURATION == 72
ITEM_TURBO_DURATION == 150

\* the speed, accel and weight stats of the roster, in roster order
CHARACTERS ==
  << [speed |-> 4, accel |-> 5, handling |-> 4, weight |-> 3],
     [speed |-> 6, accel |-> 3, handling |-> 5, weight |-> 2],
     [speed |-> 6, accel |-> 4, handling |-> 3, weight |-> 5],
     [speed |-> 3, accel |-> 6, handling |-> 5, weight |-> 2],
     [speed |-> 5, accel |-> 4, handling |-> 4, weight |-> 4],
     [speed |-> 5, accel |-> 5, handling |-> 3, weight |-> 3],
     [speed |-> 4, accel |-> 5, handling |-> 5, weight |-> 3],
     [speed |-> 5, accel |-> 3, handling |-> 4, weight |-> 6] >>

MaxPhysTicks == 1                           \* ticks explored
InitSpeeds == {-12000, 0, 15000}            \* kart speeds before the first tick
AccelInputs == {-10, 10}                    \* brake/reverse and full throttle
PushDots == {-1, 0, 100}                    \* no push, a grazing and a head-on push
DriftStates == {"idle", "charging", "boosting"}

Max(a, b) == IF a >= b THEN a ELSE b
Min(a, b) == IF a <= b THEN a ELSE b

\* the Kart constructor, for a character
NewPhysKart(c) ==
  [speed |-> 0, isOnRoad |-> TRUE, drift |-> NewDriftBoost,
   gustTimer |-> 0, wobbleTimer |-> 0, turboTimer |-> 0,
   maxSpeed |-> (BASE_MAX_SPEED * (7 + c.speed)) \div 10,
   acceleration |-> (BASE_ACCELERATION * (7 + c.accel)) \div 10,
   weight |-> 7 + c.weight,
   effectiveMaxSpeed |-> 0]   \* history: the effectiveMaxSpeed of the last updatePhysics

\* mutant of getEffectiveMaxSpeed: off the road the harsher factor always applies
getEffectiveMaxSpeed_harshOffRoad(k, onRoad) ==
  LET drifted == (k.maxSpeed * speedMultiplier(k.drift)) \div 100
      turbo == IF k.turboTimer > 0 THEN (drifted * TurboMaxFactor) \div 100 ELSE drifted
      wobble == IF k.wobbleTimer > 0 THEN (turbo * WobbleMaxFactor) \div 100 ELSE turbo
  IN IF onRoad THEN wobble ELSE (wobble * OFFROAD_SPEED_MULTIPLIER) \div 100

getEffectiveMaxSpeed(k, onRoad) ==
  LET drifted == (k.maxSpeed * speedMultiplier(k.drift)) \div 100
      turbo == IF k.turboTimer > 0 THEN (drifted * TurboMaxFactor) \div 100 ELSE drifted
      wobble == IF k.wobbleTimer > 0 THEN (turbo * WobbleMaxFactor) \div 100 ELSE turbo
  IN IF onRoad THEN wobble
     ELSE IF isBoosting(k.drift) \/ k.turboTimer > 0
          THEN (wobble * OFFROAD_DURING_BOOST_MULTIPLIER) \div 100
          ELSE (wobble * OFFROAD_SPEED_MULTIPLIER) \div 100

\* mutant of clampSpeed: the upper limit is not applied
clampSpeed_noUpper(speed, effMax) ==
  Max(-((effMax * ReverseMaxFactor) \div 10), speed)

\* updatePhysics: clamp speed
clampSpeed(speed, effMax) ==
  Max(-((effMax * ReverseMaxFactor) \div 10), Min(effMax, speed))

\* updatePhysics: friction for one frame (Math.pow(friction, dt * 60), dt * 60 = 1)
friction(k) ==
  IF isCharging(k.drift) THEN (BASE_FRICTION * DRIFT_FRICTION_MULTIPLIER) \div 1000
  ELSE BASE_FRICTION

\* updatePhysics, as far as speed, timers and flags go; driftAfter is the
\* DriftBoost after the drift block
updatePhysics(k, accelInput, onRoad, driftAfter) ==
  LET accel == IF k.gustTimer > 0 THEN (accelInput * GustAccelFactor) \div 10 ELSE accelInput
      timed == [k EXCEPT !.isOnRoad = onRoad,
                         !.gustTimer = IF @ > 0 THEN @ - FIXED_DT ELSE @,
                         !.wobbleTimer = IF @ > 0 THEN @ - FIXED_DT ELSE @,
                         !.drift = driftAfter]
      effMax == getEffectiveMaxSpeed(timed, onRoad)
      driven == IF accel > 0
                THEN k.speed + (k.acceleration * accel * FIXED_DT) \div (10 * FramesPerSecond)
                ELSE IF accel < 0
                     THEN k.speed - (BASE_BRAKE_FORCE * FIXED_DT) \div FramesPerSecond
                     ELSE k.speed
      slowed == (driven * friction(timed)) \div 1000
  IN [timed EXCEPT !.speed = clampSpeed(slowed, effMax), !.effectiveMaxSpeed = effMax]

\* RaceManager.update: one kart's physics and its turbo timer
tickKart(k, in) ==
  LET moved == updatePhysics(k, in.accel, in.onRoad, in.drift)
  IN [moved EXCEPT !.turboTimer = IF @ > 0 THEN @ - FIXED_DT ELSE @]

\* ItemSystem.applyGust, applyWobble and applyTurbo on the karts
applyEffect(ks, user, target, item) ==
  CASE item = "gust" ->
         [ks EXCEPT ![target].gustTimer = ITEM_GUST_STEER_LOCK,
                    ![target].drift = cancel(@)]
    [] item = "wobble" -> [ks EXCEPT ![target].wobbleTimer = ITEM_WOBBLE_DURATION]
    [] item = "turbo" -> [ks EXCEPT ![user].turboTimer = ITEM_TURBO_DURATION]
    [] OTHER -> ks

\* RaceManager.update: the human kart, then each AI kart followed by its use
\* of an item (ai[i].item, NoItem for none, on kart ai[i].target)
RECURSIVE physicsLoop(_, _, _, _)
physicsLoop(i, ks, ins, ai) ==
  IF i > NumKarts - 1 THEN ks
  ELSE physicsLoop(i + 1,
         IF i = humanKartIndex
         THEN [ks EXCEPT ![i] = tickKart(@, ins[i])]
         ELSE applyEffect([ks EXCEPT ![i] = tickKart(@, ins[i])],
                          i, ai[i].target, ai[i].item),
         ins, ai)

\* resolveCollisions: one kart against the barriers; dot is |forward . push|
\* in hundredths, negative when there is no push
barrierHit(k, dot) ==
  IF dot < 0 THEN k
  ELSE [k EXCEPT !.speed =
          Max((k.speed * (10000 - dot * (100 - WALL_BOUNCE_FACTOR))) \div 10000,
              BarrierFloor)]

\* mutant of kartBump: the bumped karts are not held to a minimum speed
kartBump_noFloor(ks, i, j) ==
  LET rel == ks[i].speed - ks[j].speed
      totalWeight == ks[i].weight + ks[j].weight
  IN [ks EXCEPT
        ![i].speed = ks[i].speed
                       - (rel * KART_BOUNCE_FACTOR * ks[j].weight) \div (100 * totalWeight),
        ![j].speed = ks[j].speed
                       + (rel * KART_BOUNCE_FACTOR * ks[i].weight) \div (100 * totalWeight)]

\* resolveCollisions: the speed exchange of two overlapping karts
kartBump(ks, i, j) ==
  LET rel == ks[i].speed - ks[j].speed
      totalWeight == ks[i].weight + ks[j].weight
  IN [ks EXCEPT
        ![i].speed = Max(ks[i].speed
                           - (rel * KART_BOUNCE_FACTOR * ks[j].weight) \div (100 * totalWeight),
                         BumpFloor),
        ![j].speed = Max(ks[j].speed
                           + (rel * KART_BOUNCE_FACTOR * ks[i].weight) \div (100 * totalWeight),
                         BumpFloor)]

\* the pairs i < j in the order of the nested loops
PairSeq ==
  LET n == NumKarts
      at(m) == CHOOSE p \in KartIds \X KartIds :
                 /\ p[1] < p[2]
                 /\ Cardinality({q \in KartIds \X KartIds :
                                   /\ q[1] < q[2]
                                   /\ (q[1] < p[1] \/ (q[1] = p[1] /\ q[2] < p[2]))}) = m - 1
  IN [m \in 1..((n * (n - 1)) \div 2) |-> at(m)]

\* resolveCollisions: the kart-kart loop from the n-th pair on
RECURSIVE bumpLoop(_, _, _)
bumpLoop(n, ks, contacts) ==
  IF n > Len(PairSeq) THEN ks
  ELSE bumpLoop(n + 1,
                IF PairSeq[n] \in contacts
                THEN kartBump(ks, PairSeq[n][1], PairSeq[n][2]) ELSE ks,
                contacts)

\* resolveCollisions: the barrier phase
barrierPhase(ks, push) == [i \in KartIds |-> barrierHit(ks[i], push[i])]

\* mutant of pastGrace: the kart-kart phase runs whatever the race time
pastGrace_always(raceTimeArg) == TRUE

\* mutant of pastGrace: the kart-kart phase never runs
pastGrace_never(raceTimeArg) == FALSE

\* resolveCollisions: whether the kart-kart phase runs
pastGrace(raceTimeArg) == ~(raceTimeArg < GRACE_PERIOD)

resolveCollisions(ks, push, contacts, raceTimeArg) ==
  IF pastGrace(raceTimeArg) THEN bumpLoop(1, barrierPhase(ks, push), contacts)
  ELSE barrierPhase(ks, push)

\* a drift block outcome
DriftAfter(st) == [NewDriftBoost EXCEPT !.state = st]

KartInputs ==
  [accel : AccelInputs, onRoad : BOOLEAN, drift : {DriftAfter(st) : st \in DriftStates}]

AiItems ==
  [KartIds \ {humanKartIndex} ->
     [item : ItemIds \cup {NoItem}, target : KartIds]]

NoTick ==
  [op |-> "new", afterPhysics |-> <<>>, pushed |-> {}, separated |-> {},
   contacts |-> {}, afterBarrier |-> <<>>, ticks |-> 0]

\* the karts at some moment of a race: constructed, at any speed of InitSpeeds
TickInit ==
  /\ DriftIdle
  /\ LapIdle
  /\ RaceIdle
  /\ ItemIdle
  /\ SteerIdle
  /\ CallIdle
  /\ TurboIdle
  /\ ButterflyIdle
  /\ AiIdle
  /\ \E sp \in [KartIds -> InitSpeeds] :
       pk = [i \in KartIds |-> [NewPhysKart(CHARACTERS[i + 1]) EXCEPT !.speed = sp[i]]]
  /\ plog = NoTick

\* RaceManager.update, racing: physics of every kart, then resolveCollisions
\* (called without a race time)
PhysTick ==
  /\ plog.ticks < MaxPhysTicks
  /\ \E ins \in [KartIds -> KartInputs], ai \in AiItems,
        push \in [KartIds -> PushDots],
        contacts \in SUBSET {PairSeq[n] : n \in DOMAIN PairSeq} :
       /\ \A i \in DOMAIN ai : ai[i].target # i
       /\ \E moved \in {physicsLoop(0, pk, ins, ai)} :
            /\ pk' = resolveCollisions(moved, push, contacts, Infinity)
            /\ plog' = [op |-> "tick",
                        afterPhysics |-> [i \in KartIds |-> moved[i].speed],
                        pushed |-> {i \in KartIds : push[i] >= 0},
                        separated |-> {i \in KartIds :
                                         \E p \in contacts : i = p[1] \/ i = p[2]},
                        contacts |-> contacts,
                        afterBarrier |-> [i \in KartIds |-> barrierPhase(moved, push)[i].speed],
                        ticks |-> plog.ticks + 1]
  /\ UNCHANGED notTick

\* RaceManager.usePlayerItem, between two ticks
UsePlayerItem ==
  /\ plog.ticks < MaxPhysTicks
  /\ \E item \in ItemIds, target \in KartIds \ {humanKartIndex} :
       pk' = applyEffect(pk, humanKartIndex, target, item)
  /\ plog' = [plog EXCEPT !.op = "usePlayerItem"]
  /\ UNCHANGED notTick

TickNext == PhysTick \/ UsePlayerItem

SpecTick == TickInit /\ [][TickNext]_vars

\* C6 (as stated): when resolveCollisions returns, every kart pushed by a
\* barrier has |speed| >= 3 and every kart separated from another kart has
\* |speed| >= 2.
C6_FloorsAtReturn ==
  plog.op = "tick" =>
    \A i \in KartIds :
      /\ i \in plog.pushed => (pk[i].speed >= BarrierFloor \/ -pk[i].speed >= BarrierFloor)
      /\ i \in plog.separated => (pk[i].speed >= BumpFloor \/ -pk[i].speed >= BumpFloor)

\* C6 (amended): every kart pushed by a barrier has speed >= 3 after the
\* barrier phase, and still has that speed when resolveCollisions returns
\* unless it was also separated from another kart; every kart separated
\* from another kart has speed >= 2 when resolveCollisions returns.
C6_FloorOfLastContact ==
  plog.op = "tick" =>
    \A i \in KartIds :
      /\ i \in plog.pushed =>
           /\ plog.afterBarrier[i] >= BarrierFloor
           /\ i \notin plog.separated => pk[i].speed = plog.afterBarrier[i]
      /\ i \in plog.separated => pk[i].speed >= BumpFloor

\* C6 witness: a reversing kart was pushed by a barrier and separated from
\* another kart in the same call, and ends between the two floors.
C6_Witness ==
  /\ plog.op = "tick"
  /\ \E i \in plog.pushed \cap plog.separated :
       /\ plog.afterPhysics[i] < 0
       /\ plog.afterBarrier[i] >= BarrierFloor
       /\ pk[i].speed >= BumpFloor /\ pk[i].speed < BarrierFloor

InClamp(speed, effMax) ==
  -((effMax * ReverseMaxFactor) \div 10) <= speed /\ speed <= effMax

\* C7 (as stated): at the end of every tick every kart's speed is within
\* [-0.3 * effectiveMax, effectiveMax] for its current effective max speed.
C7_ClampAtTickEnd ==
  plog.op = "tick" =>
    \A i \in KartIds :
      InClamp(pk[i].speed, getEffectiveMaxSpeed(pk[i], pk[i].isOnRoad))

\* C7 (amended): in every tick every kart's speed after its updatePhysics is
\* within [-0.3 * E, E] for the effective max speed E that updatePhysics
\* computed, and at the end of the tick this still holds of every kart that
\* was not separated from another kart.
C7_ClampAfterPhysics ==
  plog.op = "tick" =>
    \A i \in KartIds :
      /\ InClamp(plog.afterPhysics[i], pk[i].effectiveMaxSpeed)
      /\ i \notin plog.separated => InClamp(pk[i].speed, pk[i].effectiveMaxSpeed)

\* C7 witness: a wobbling kart off the road was cut down to its effective
\* max speed by updatePhysics and touched by no kart.
C7_Witness ==
  /\ plog.op = "tick"
  /\ \E i \in KartIds \ plog.separated :
       /\ pk[i].wobbleTimer > 0 /\ ~pk[i].isOnRoad
       /\ pk[i].speed = pk[i].effectiveMaxSpeed
       /\ pk[i].speed = plog.afterPhysics[i]

\* the karts as the barrier loop of the last tick left them
AfterBarrier == [i \in KartIds |-> [pk[i] EXCEPT !.speed = plog.afterBarrier[i]]]

BASE_STEERING_SPEED == 2800
DRIFT_STEERING_MULTIPLIER == 120
DriftSteerInputShare == 60                  \* updatePhysics: steerInput * 0.6
DriftSteerBiasShare == 40                   \* updatePhysics: driftDirection * 0.4
DriftStartSpeed == 5000                     \* updatePhysics: this.speed > 5
SteerMinSpeed == 500                        \* updatePhysics: Math.abs(this.speed) > 0.5
GustLockMs == (ITEM_GUST_STEER_LOCK * 1000) \div FramesPerSecond

MaxSteerTicks == 8                          \* updatePhysics calls explored
SteerDt == 100                              \* the dt of every call
SteerInputs == {-100, 0, 100}               \* right, none, left
SteerSpeeds == {-3000, 300, 15000}          \* reversing, crawling, racing

\* the Kart constructor, for a character
NewSteerKart(c) ==
  [gustTimer |-> 0, drift |-> NewDriftBoost, steerAngle |-> 0,
   steeringSpeed |-> (BASE_STEERING_SPEED * (7 + c.handling)) \div 10]

\* updatePhysics: the steering input after the effect timers
gustSteer(gustTimer, steerInput) == IF gustTimer > 0 THEN 0 ELSE steerInput

\* updatePhysics: the drift system
driftBlock(d, speed, steerInput, driftHeld, dt, inDriftZone) ==
  LET started == IF driftHeld /\ ~isCharging(d) /\ ~isBoosting(d) /\ speed > DriftStartSpeed
                 THEN startDrift(d, steerInput) ELSE d
      released == IF ~driftHeld /\ isCharging(started) THEN release(started) ELSE started
  IN update(released, dt, inDriftZone)

\* updatePhysics: steerAngle, from the steering input and the DriftBoost
\* after the drift system
steering(k, d, steerInput) ==
  IF isCharging(d)
  THEN (((steerInput * DriftSteerInputShare + d.driftDirection * 100 * DriftSteerBiasShare)
           \div 100)
        * ((k.steeringSpeed * DRIFT_STEERING_MULTIPLIER) \div 100)) \div 100
  ELSE (steerInput * k.steeringSpeed) \div 100

\* updatePhysics: the change of rotation
turn(speed, steerAngle, dt) ==
  IF speed > SteerMinSpeed THEN (steerAngle * dt) \div 1000
  ELSE IF -speed > SteerMinSpeed THEN -((steerAngle * dt) \div 2000)
  ELSE 0

\* updatePhysics, lines 154-187
steerKart(k, speed, dt, steerInput, driftHeld, inDriftZone) ==
  LET locked == gustSteer(k.gustTimer, steerInput)
      d == driftBlock(k.drift, speed, locked, driftHeld, dt, inDriftZone)
  IN [k EXCEPT !.gustTimer = IF @ > 0 THEN @ - dt ELSE @,
               !.drift = d,
               !.steerAngle = steering(k, d, locked)]

SteerInit ==
  /\ DriftIdle
  /\ LapIdle
  /\ RaceIdle
  /\ ItemIdle
  /\ TickIdle
  /\ CallIdle
  /\ TurboIdle
  /\ ButterflyIdle
  /\ AiIdle
  /\ sk = NewSteerKart(CHARACTERS[1])
  /\ slog = [op |-> "new", gustBefore |-> 0, turnedBy |-> 0, ticks |-> 0]

SteerTick ==
  /\ slog.ticks < MaxSteerTicks
  /\ \E steerInput \in SteerInputs, driftHeld \in BOOLEAN, inDriftZone \in BOOLEAN,
        speed \in SteerSpeeds :
     \E k \in {steerKart(sk, speed, SteerDt, steerInput, driftHeld, inDriftZone)} :
       /\ sk' = k
       /\ slog' = [op |-> "updatePhysics", gustBefore |-> sk.gustTimer,
                   turnedBy |-> turn(speed, k.steerAngle, SteerDt),
                   ticks |-> slog.ticks + 1]
  /\ UNCHANGED notSteer

\* ItemSystem.applyGust on this kart
GustHit ==
  /\ slog.ticks < MaxSteerTicks
  /\ sk' = [sk EXCEPT !.gustTimer = GustLockMs, !.drift = cancel(@)]
  /\ slog' = [slog EXCEPT !.op = "applyGust"]
  /\ UNCHANGED notSteer

SteerNext == SteerTick \/ GustHit

SpecSteer == SteerInit /\ [][SteerNext]_vars

\* C11: an updatePhysics call made while gustTimer > 0 leaves steerAngle at
\* 0 and does not change the heading.
C11_GustLocksSteering ==
  (slog.op = "updatePhysics" /\ slog.gustBefore > 0) =>
    (sk.steerAngle = 0 /\ slog.turnedBy = 0)

(***************************************************************************)
(* Functions called on their own, with arguments drawn from bounded sets.  *)
(*                                                                         *)
(* physics/collision.ts, resolveCollisions with a race time.  The karts    *)
(* stand on one line: positions are in hundredths of a unit along it, the  *)
(* race time is in frames.  A barrier push is its |forward . push| and the *)
(* displacement it gives the kart along the line.                          *)
(***************************************************************************)
KART_COLLISION_RADIUS == 180
ContactEps == 1                             \* resolveCollisions: dist > 0.01

CallSpeeds == {-12000, 1000, 15000}
CallGaps == {0, 1, 2, 200, 359, 360}        \* distance from each kart to the next
CallPushes == { [dot |-> -1, dx |-> 0], [dot |-> 0, dx |-> 13], [dot |-> 100, dx |-> -13] }
CallRaceTimes == {0, GRACE_PERIOD - 1, GRACE_PERIOD, 2 * GRACE_PERIOD}

Abs(a) == IF a < 0 THEN -a ELSE a

\* resolveCollisions: the positions after the barrier loop
barrierShove(xs, push) ==
  [i \in KartIds |-> IF push[i].dot < 0 THEN xs[i] ELSE xs[i] + push[i].dx]

\* resolveCollisions: the test on one pair
inContact(xs, i, j) ==
  LET dist == Abs(xs[j] - xs[i])
  IN dist < 2 * KART_COLLISION_RADIUS /\ dist > ContactEps

\* resolveCollisions: the weight-based separation of a pair in contact
separate(xs, ws, i, j) ==
  LET overlap == 2 * KART_COLLISION_RADIUS - Abs(xs[j] - xs[i])
      normal == IF xs[j] > xs[i] THEN 1 ELSE -1
      totalWeight == ws[i] + ws[j]
  IN [xs EXCEPT ![i] = @ - normal * ((overlap * ws[j]) \div totalWeight),
                ![j] = @ + normal * ((overlap * ws[i]) \div totalWeight)]

\* resolveCollisions: the kart-kart loop on the positions from the n-th pair
\* on; st.contacts collects the pairs found in contact, st.dists the
\* distance of each pair at its turn
RECURSIVE contactLoop(_, _, _)
contactLoop(n, st, ws) ==
  IF n > Len(PairSeq) THEN st
  ELSE contactLoop(n + 1,
         [xs |-> IF inContact(st.xs, PairSeq[n][1], PairSeq[n][2])
                 THEN separate(st.xs, ws, PairSeq[n][1], PairSeq[n][2]) ELSE st.xs,
          contacts |-> IF inContact(st.xs, PairSeq[n][1], PairSeq[n][2])
                       THEN st.contacts \cup {PairSeq[n]} ELSE st.contacts,
          dists |-> st.dists @@
                    (PairSeq[n] :> Abs(st.xs[PairSeq[n][2]] - st.xs[PairSeq[n][1]]))],
         ws)

\* resolveCollisions(karts, track, raceTime) on karts at positions xs
collide(ks, xs, push, raceTimeArg) ==
  LET shoved == barrierShove(xs, push)
      none == [xs |-> shoved, contacts |-> {}, dists |-> <<>>]
      met == IF pastGrace(raceTimeArg)
             THEN contactLoop(1, none, [i \in KartIds |-> ks[i].weight])
             ELSE none
  IN [ks |-> resolveCollisions(ks, [i \in KartIds |-> push[i].dot], met.contacts,
                               raceTimeArg),
      xs |-> met.xs, contacts |-> met.contacts, dists |-> met.dists]

\* the positions of karts standing at the given gaps from each other
RECURSIVE lineUp(_, _)
lineUp(i, gaps) == IF i = 0 THEN 0 ELSE lineUp(i - 1, gaps) + gaps[i]

(***************************************************************************)
(* gameplay/butterfly-system.ts, computeScore.  The array is read at        *)
(* position (0-based); a read outside it is undefined, which ?? turns to 0. *)
(***************************************************************************)
POSITION_BONUS == <<10, 7, 5, 4, 3, 2, 1, 0>>

MaxScoreButterflies == 10
ScorePositions == -2 .. 9                   \* ranks 0..7 and indices outside the table
ScoreButterflies == 0 .. MaxScoreButterflies

\* mutant of computeScore: the table is read one place too low
computeScore_offByOne(position, butterflies) ==
  (IF position \in DOMAIN POSITION_BONUS THEN POSITION_BONUS[position] ELSE 0)
    + butterflies

computeScore(position, butterflies) ==
  (IF position + 1 \in DOMAIN POSITION_BONUS THEN POSITION_BONUS[position + 1] ELSE 0)
    + butterflies

ScoreCalls ==
  { [fn |-> "computeScore", position |-> p, butterflies |-> b] :
      p \in ScorePositions, b \in ScoreButterflies }

\* the arguments of an updatePhysics call: a kart of any character, under
\* any mix of turbo and wobble, with any outcome of the drift block
PhysicsCalls ==
  { [fn |-> "updatePhysics",
     k |-> [NewPhysKart(CHARACTERS[c]) EXCEPT !.speed = sp, !.turboTimer = tt,
                                              !.wobbleTimer = wt],
     accel |-> a, onRoad |-> r, driftAfter |-> DriftAfter(st)] :
      c \in DOMAIN CHARACTERS, sp \in CallSpeeds,
      tt \in {0, FIXED_DT, ITEM_TURBO_DURATION}, wt \in {0, ITEM_WOBBLE_DURATION},
      a \in AccelInputs, r \in BOOLEAN, st \in DriftStates }

RollPositions == 0 .. 7                     \* race positions, 0 = first

RollCalls ==
  UNION { { [fn |-> "rollItem", position |-> p, roll |-> r] : r \in Rolls(p) } :
            p \in RollPositions }

\* the arguments of a resolveCollisions call
CollisionCalls ==
  { [fn |-> "resolveCollisions",
     ks |-> [i \in KartIds |-> [NewPhysKart(CHARACTERS[i + 1]) EXCEPT !.speed = sp[i]]],
     xs |-> [i \in KartIds |-> lineUp(i, gaps)], push |-> push, raceTime |-> t] :
      sp \in [KartIds -> CallSpeeds], gaps \in [1..(NumKarts - 1) -> CallGaps],
      push \in [KartIds -> CallPushes], t \in CallRaceTimes }

NoTarget == -1                              \* findTargetAhead returns null

\* the kart ids in array order except the user's:
\* allKarts.filter(k => k.id !== user.id); new Kart(i, ...) gives kart i id i
RECURSIVE others(_, _, _)
others(i, n, user) ==
  IF i > n THEN <<>>
  ELSE (IF i # user THEN <<i>> ELSE <<>>) \o others(i + 1, n, user)

\* findTargetAhead: the loop for the kart one position ahead, from index i
RECURSIVE aheadLoop(_, _, _)
aheadLoop(i, pos, wanted) ==
  IF i \notin DOMAIN pos THEN NoTarget
  ELSE IF pos[i] = wanted THEN i
  ELSE aheadLoop(i + 1, pos, wanted)

\* mutant of findTargetAhead: the first kart draws among all the karts
findTargetAhead_anyKart(user, pos, pick) ==
  IF pos[user] = 0 THEN pick
  ELSE aheadLoop(0, pos, pos[user] - 1)

\* findTargetAhead for the kart at index user, with
\* Math.floor(Math.random() * others.length) = pick
findTargetAhead(user, pos, pick) ==
  IF pos[user] = 0
    THEN LET o == others(0, Cardinality(DOMAIN pos) - 1, user)
         IN IF pick + 1 \in DOMAIN o THEN o[pick + 1] ELSE NoTarget
    ELSE aheadLoop(0, pos, pos[user] - 1)

TargetKarts == 3                            \* karts of a findTargetAhead call
TargetIds == 0 .. (TargetKarts - 1)

\* what updatePositions reads of a kart: racing at some progress, or
\* finished at some time
Standings ==
  { [raceProgress |-> p, finished |-> f, finishTime |-> t] :
      p \in {5, 105}, f \in BOOLEAN, t \in {0, 40, 41} }

\* the positions arrays of RaceManager: that of the constructor, and those
\* updatePositions writes
InitialPositions == [i \in TargetIds |-> i]

\* call is a findTargetAhead call on the karts ids
TargetCall(ids) ==
  \E u \in ids, ks \in [ids -> {st \in Standings : st.finished <=> st.finishTime > 0}],
     fresh \in BOOLEAN, pick \in 0 .. (Cardinality(ids) - 2) :
    call = [fn |-> "findTargetAhead", user |-> u, ks |-> ks, fresh |-> fresh,
            pick |-> pick]

\* mutant of ItemSystem_useItem: the item is kept when no target is found
ItemSystem_useItem_keepOnMiss(ks, items, user, pos, pick) ==
  LET itemId == items[user]
      target == IF itemId \in {"gust", "wobble"}
                THEN findTargetAhead(user, pos, pick) ELSE NoTarget
      done == itemId = "turbo" \/ target # NoTarget
  IN IF itemId = NoItem \/ ~done THEN [ks |-> ks, held |-> items, result |-> "null"]
     ELSE [ks |-> applyEffect(ks, user, target, itemId),
           held |-> useItem(items, user), result |-> itemId]

\* ItemSystem.useItem on the karts ks holding the items items; result is
\* "null" for a null return and the item used for a message
ItemSystem_useItem(ks, items, user, pos, pick) ==
  LET itemId == items[user]
      target == IF itemId \in {"gust", "wobble"}
                THEN findTargetAhead(user, pos, pick) ELSE NoTarget
      done == itemId = "turbo" \/ target # NoTarget
  IN IF itemId = NoItem THEN [ks |-> ks, held |-> items, result |-> "null"]
     ELSE [ks |-> IF done THEN applyEffect(ks, user, target, itemId) ELSE ks,
           held |-> useItem(items, user),
           result |-> IF done THEN itemId ELSE "null"]

\* a kart in the middle of a race: charging a drift, every timer running
BusyKart(i) ==
  [NewPhysKart(CHARACTERS[i + 1]) EXCEPT
     !.drift = [startDrift(NewDriftBoost, 1) EXCEPT !.chargeTime = 400, !.tier = 1],
     !.gustTimer = 2, !.wobbleTimer = 3, !.turboTimer = 7, !.speed = 15000]

\* call is a useItem call on the karts ids: any item for the user, the
\* others all with or all without an item, and any array of positions,
\* permutation or not
UseItemCall(ids) ==
  \E item \in {NoItem} \cup {ITEMS[n].id : n \in DOMAIN ITEMS},
     other \in {NoItem, "wobble"},
     u \in ids, pos \in [ids -> ids], pick \in 0 .. (Cardinality(ids) - 2) :
    call = [fn |-> "useItem", ks |-> [i \in ids |-> BusyKart(i)],
            held |-> [i \in ids |-> IF i = u THEN item ELSE other],
            user |-> u, pos |-> pos, pick |-> pick]

Pending == <<>>                             \* the call has not been made yet

CallInit ==
  /\ DriftIdle
  /\ LapIdle
  /\ RaceIdle
  /\ ItemIdle
  /\ TickIdle
  /\ SteerIdle
  /\ TurboIdle
  /\ ButterflyIdle
  /\ AiIdle
  /\ \/ call \in CollisionCalls \cup ScoreCalls \cup PhysicsCalls \cup RollCalls
     \/ TargetCall(TargetIds)
     \/ UseItemCall(TargetIds)
  /\ ret = Pending

CallResolveCollisions ==
  /\ ret = Pending
  /\ call.fn = "resolveCollisions"
  /\ ret' = collide(call.ks, call.xs, call.push, call.raceTime)
  /\ UNCHANGED <<call, notCall>>

CallComputeScore ==
  /\ ret = Pending
  /\ call.fn = "computeScore"
  /\ ret' = [score |-> computeScore(call.position, call.butterflies)]
  /\ UNCHANGED <<call, notCall>>

CallUpdatePhysics ==
  /\ ret = Pending
  /\ call.fn = "updatePhysics"
  /\ ret' = [k |-> updatePhysics(call.k, call.accel, call.onRoad, call.driftAfter)]
  /\ UNCHANGED <<call, notCall>>

CallRollItem ==
  /\ ret = Pending
  /\ call.fn = "rollItem"
  /\ ret' = [item |-> rollItemAt(call.position, call.roll)]
  /\ UNCHANGED <<call, notCall>>

\* the positions the call is given
PositionsOf(c) == IF c.fresh THEN InitialPositions ELSE updatePositions(c.ks)

CallFindTargetAhead ==
  /\ ret = Pending
  /\ call.fn = "findTargetAhead"
  /\ ret' = [target |-> findTargetAhead(call.user, PositionsOf(call), call.pick)]
  /\ UNCHANGED <<call, notCall>>

CallUseItem ==
  /\ ret = Pending
  /\ call.fn = "useItem"
  /\ ret' = ItemSystem_useItem(call.ks, call.held, call.user, call.pos, call.pick)
  /\ UNCHANGED <<call, notCall>>

CallNext ==
  \/ CallResolveCollisions
  \/ CallComputeScore
  \/ CallUpdatePhysics
  \/ CallRollItem
  \/ CallFindTargetAhead
  \/ CallUseItem

SpecCalls == CallInit /\ [][CallNext]_vars

Pairs == {PairSeq[n] : n \in DOMAIN PairSeq}

\* the karts of the call after the barrier loop alone
BarrierOnly ==
  [ks |-> barrierPhase(call.ks, [i \in KartIds |-> call.push[i].dot]),
   xs |-> barrierShove(call.xs, call.push)]

\* C12, first half: a call with a race time below the grace period returns
\* the karts as the barrier loop left them: no kart is moved by another and
\* no speed is exchanged, however much the karts overlap.
C12_GraceBarrierOnly ==
  (call.fn = "resolveCollisions" /\ ret # Pending /\ call.raceTime < GRACE_PERIOD) =>
    (ret.ks = BarrierOnly.ks /\ ret.xs = BarrierOnly.xs /\ ret.contacts = {})

\* C12 (as stated): and with a race time of 2 s or more every pair of karts
\* that overlaps after the barrier loop is separated and exchanges speed.
C12_GraceThenEveryOverlap ==
  /\ C12_GraceBarrierOnly
  /\ (call.fn = "resolveCollisions" /\ ret # Pending /\ call.raceTime >= GRACE_PERIOD) =>
       \A p \in Pairs :
         Abs(BarrierOnly.xs[p[2]] - BarrierOnly.xs[p[1]]) < 2 * KART_COLLISION_RADIUS
           => p \in ret.contacts

\* C12 (amended): with a race time of 2 s or more, the pairs resolved are
\* those whose centres are, at the pair's turn in the loop, closer than the
\* two radii and more than 0.01 apart; with two karts the resolved pair
\* ends exactly or (by rounding) one hundredth short of the two radii apart,
\* with speeds those of the speed exchange on the karts the barrier loop left.
C12_GraceThenContacts ==
  /\ C12_GraceBarrierOnly
  /\ (call.fn = "resolveCollisions" /\ ret # Pending /\ call.raceTime >= GRACE_PERIOD) =>
       /\ \A p \in Pairs :
            p \in ret.contacts <=>
              (ret.dists[p] < 2 * KART_COLLISION_RADIUS /\ ret.dists[p] > ContactEps)
       /\ ret.dists[PairSeq[1]] =
            Abs(BarrierOnly.xs[PairSeq[1][2]] - BarrierOnly.xs[PairSeq[1][1]])
       /\ (NumKarts = 2 /\ ret.contacts # {}) =>
            /\ 2 * KART_COLLISION_RADIUS - Abs(ret.xs[1] - ret.xs[0]) \in {0, 1}
            /\ ret.ks = kartBump(BarrierOnly.ks, 0, 1)
       /\ ret.contacts = {} => (ret.ks = BarrierOnly.ks /\ ret.xs = BarrierOnly.xs)

C12_Witness ==
  /\ call.fn = "resolveCollisions"
  /\ ret # Pending
  /\ call.raceTime = GRACE_PERIOD
  /\ ret.contacts # {}
  /\ ret.ks # BarrierOnly.ks
  /\ ret.xs # BarrierOnly.xs

\* C14: computeScore(position, butterflies) is the bonus 10, 7, 5, 4, 3, 2,
\* 1, 0 of positions 0..7 plus the butterflies (computeScore(0,3) = 13,
\* computeScore(7,0) = 0, computeScore(2,10) = 15), and just the butterflies
\* for a position outside 0..7.
C14_ScoreTable ==
  (call.fn = "computeScore" /\ ret # Pending) =>
    /\ call.position = 0 => ret.score = 10 + call.butterflies
    /\ call.position = 1 => ret.score = 7 + call.butterflies
    /\ call.position \in 2..6 => ret.score = (7 - call.position) + call.butterflies
    /\ call.position = 7 => ret.score = call.butterflies
    /\ call.position \notin 0..7 => ret.score = call.butterflies
    /\ (call.position = 0 /\ call.butterflies = 3) => ret.score = 13
    /\ (call.position = 7 /\ call.butterflies = 0) => ret.score = 0
    /\ (call.position = 2 /\ call.butterflies = 10) => ret.score = 15

C14_Witness ==
  /\ call.fn = "computeScore"
  /\ ret # Pending
  /\ call.position = 8
  /\ call.butterflies = 3
  /\ ret.score = 3

\* a is b * pct / 100, up to the rounding of the thousandths
IsPercentOf(a, pct, b) == 100 * a <= b * pct /\ b * pct < 100 * (a + 2)

\* C15: an updatePhysics call off the road with turboTimer > 0, no wobble
\* and no drift boost uses effectiveMaxSpeed = maxSpeed * 1.35 * 0.75; and
\* off the road the effective max speed is 0.5 of the on-road one exactly
\* when the kart is neither drift-boosting nor under turbo (0.75 otherwise).
C15_OffRoadTurbo ==
  (call.fn = "updatePhysics" /\ ret # Pending /\ ~call.onRoad) =>
    LET eff == ret.k.effectiveMaxSpeed
        boosted == isBoosting(call.driftAfter) \/ call.k.turboTimer > 0
        onEff == updatePhysics(call.k, call.accel, TRUE, call.driftAfter).effectiveMaxSpeed
    IN /\ (call.k.turboTimer > 0 /\ call.k.wobbleTimer = 0 /\ ~isBoosting(call.driftAfter))
            => IsPercentOf(eff, 75, (call.k.maxSpeed * 135) \div 100)
       /\ IsPercentOf(eff, IF boosted THEN 75 ELSE 50, onEff)
       /\ boosted => ~IsPercentOf(eff, 50, onEff)

C15_Witness ==
  /\ call.fn = "updatePhysics"
  /\ ret # Pending
  /\ ~call.onRoad
  /\ call.k.turboTimer > 0 /\ call.k.wobbleTimer = 0 /\ ~isBoosting(call.driftAfter)
  /\ call.k.maxSpeed = 49500
  /\ ret.k.effectiveMaxSpeed = 50118

\* the weight 1 + backWeight * (p / 7) * 2 of the claim, in the units of
\* the rolls
ClaimedWeight(backWeight, p) == RollGrain * (7 + backWeight * p * 2)
ClaimedTotal(p) == ClaimedWeight(1, p) + ClaimedWeight(2, p) + ClaimedWeight(3, p)

C23_TargetIsNotUser ==
  (call.fn = "findTargetAhead" /\ ret # Pending) =>
    LET pos == PositionsOf(call)
        r == pos[call.user]
    IN /\ {pos[i] : i \in TargetIds} = TargetIds
       /\ ret.target \in TargetIds \ {call.user}
       /\ r > 0 => /\ pos[ret.target] = r - 1
                   /\ \A i \in TargetIds : pos[i] = r - 1 => i = ret.target
       /\ r = 0 => ret.target \in TargetIds \ {call.user}

\* C23 witness: the karts are level or finished together, the user is not
\* first in the array yet ranked first, and the target drawn is another kart.
C23_Witness ==
  /\ call.fn = "findTargetAhead" /\ ret # Pending
  /\ ~call.fresh
  /\ call.user = 1 /\ PositionsOf(call)[1] = 0
  /\ call.ks[0].finished /\ call.ks[1].finished
  /\ ret.target = 0

\* C24: after useItem the user holds nothing and every other kart holds
\* what it held; a user that held nothing gets null and nothing is changed;
\* a turbo changes the user's turboTimer and no other field of any kart.
C24_UseItemConsumes ==
  (call.fn = "useItem" /\ ret # Pending) =>
    /\ ret.held[call.user] = NoItem
    /\ \A i \in TargetIds \ {call.user} : ret.held[i] = call.held[i]
    /\ call.held[call.user] = NoItem =>
         (ret.result = "null" /\ ret.ks = call.ks /\ ret.held = call.held)
    /\ call.held[call.user] = "turbo" =>
         /\ ret.ks = [call.ks EXCEPT ![call.user].turboTimer = ret.ks[call.user].turboTimer]
         /\ ret.ks[call.user].turboTimer = ITEM_TURBO_DURATION

\* C24 witness: a gust was used with no kart one position ahead: null is
\* returned, no kart is touched and the gust is gone.
C24_Witness ==
  /\ call.fn = "useItem" /\ ret # Pending
  /\ call.held[call.user] = "gust"
  /\ ret.result = "null" /\ ret.ks = call.ks
  /\ ret.held[call.user] = NoItem

(***************************************************************************)
(* The turbo timer of one kart over the frames of a race: applyTurbo, the  *)
(* boost slot of a gate, and RaceManager.update's physics and timer        *)
(* decrement.  The kart coasts on the road or off it and does not drift.   *)
(***************************************************************************)
GATE_BOOST_DURATION == 48                   \* 0.8 s in frames
DocTurboDuration == 90                      \* the 1.5 s of the item table, in frames
MaxTurboTicks == 160

\* used: turbo was used and nothing else has set the timer since
NoTurbo == [op |-> "new", used |-> FALSE, sinceUse |-> 0, factor |-> 100, ticks |-> 0]

TurboInit ==
  /\ DriftIdle
  /\ LapIdle
  /\ RaceIdle
  /\ ItemIdle
  /\ TickIdle
  /\ SteerIdle
  /\ CallIdle
  /\ ButterflyIdle
  /\ AiIdle
  /\ tk = NewPhysKart(CHARACTERS[1])
  /\ tlog = NoTurbo

\* RaceManager.update: the physics of the kart and its turbo timer
TurboTick ==
  /\ tlog.ticks < MaxTurboTicks
  /\ \E onRoad \in BOOLEAN :
       \E k \in {tickKart(tk, [accel |-> 0, onRoad |-> onRoad, drift |-> DriftAfter("idle")])} :
         /\ tk' = k
         /\ tlog' = [op |-> "tick",
                     used |-> tlog.used,
                     sinceUse |-> IF tlog.used THEN tlog.sinceUse + 1 ELSE 0,
                     factor |-> (100 * k.effectiveMaxSpeed) \div k.maxSpeed,
                     ticks |-> tlog.ticks + 1]
  /\ UNCHANGED notTurbo

\* ItemSystem.applyTurbo on the kart
UseTurbo ==
  /\ tlog.ticks < MaxTurboTicks
  /\ tk' = [tk EXCEPT !.turboTimer = ITEM_TURBO_DURATION]
  /\ tlog' = [tlog EXCEPT !.op = "applyTurbo", !.used = TRUE, !.sinceUse = 0]
  /\ UNCHANGED notTurbo

\* ObstacleSystem: the kart passes the boost slot of a gate
GateBoost ==
  /\ tlog.ticks < MaxTurboTicks
  /\ tk' = [tk EXCEPT !.turboTimer = Max(@, GATE_BOOST_DURATION)]
  /\ tlog' = [tlog EXCEPT !.op = "gateBoost", !.used = FALSE, !.sinceUse = 0]
  /\ UNCHANGED notTurbo

TurboNext == TurboTick \/ UseTurbo \/ GateBoost

SpecTurbo == TurboInit /\ [][TurboNext]_vars

\* C17: after turbo is used (and not applied again), the 1.35x factor is in
\* effect in the race ticks of the next 1.5 s and in none after them (seen
\* on the road, where no other factor applies to this kart).
C17_TurboLasts1500ms ==
  (tlog.op = "tick" /\ tlog.used /\ tk.isOnRoad) =>
    /\ tlog.sinceUse <= DocTurboDuration => tlog.factor = TurboMaxFactor
    /\ tlog.sinceUse > DocTurboDuration => tlog.factor = 100

(***************************************************************************)
(* gameplay/butterfly-system.ts and the mesh sync of the game loop         *)
(* (main.ts, rendering/scene-manager.ts); the ids of the ItemSystem boxes. *)
(* A butterfly is its id and its collected flag.  The track starts with    *)
(* InitClusters clusters of ClusterSize butterflies (15 of 4 in the game). *)
(***************************************************************************)
InitClusters == 1                           \* CLUSTER_COUNT, 15 in the game
ClusterSize == 2                            \* BUTTERFLIES_PER_CLUSTER, 4 in the game
MaxSpawns == 2                              \* clusters spawned during the race
MaxZones == 2                               \* zones of the track
BoxesPerZone == 3                           \* ItemSystem constructor: [-5, 0, 5]

\* mutant of spawnCluster: a butterfly's id is its place in the list
spawnCluster_idFromLength(b) ==
  LET ids == [n \in 1..ClusterSize |-> Len(b.butterflies) + n - 1]
  IN [butterflies |-> b.butterflies \o [n \in 1..ClusterSize |->
                                          [id |-> ids[n], collected |-> FALSE]],
      nextId |-> b.nextId + ClusterSize,
      issued |-> b.issued \o ids]

\* spawnCluster: ClusterSize pushes of { id: this.nextId++, collected: false }
spawnCluster(b) ==
  LET ids == [n \in 1..ClusterSize |-> b.nextId + n - 1]
  IN [butterflies |-> b.butterflies \o [n \in 1..ClusterSize |->
                                          [id |-> ids[n], collected |-> FALSE]],
      nextId |-> b.nextId + ClusterSize,
      issued |-> b.issued \o ids]

RECURSIVE spawnClusters(_, _)
spawnClusters(n, b) == IF n = 0 THEN b ELSE spawnCluster(spawnClusters(n - 1, b))

\* the ButterflySystem constructor
NewButterflySystem ==
  spawnClusters(InitClusters, [butterflies |-> <<>>, nextId |-> 0, issued |-> <<>>])

\* ButterflySystem.update, one kart against the butterflies: those at the
\* places of near, if not collected yet, are marked collected
collectFor(bfs, near) ==
  [n \in DOMAIN bfs |->
     IF n \in near /\ ~bfs[n].collected
     THEN [bfs[n] EXCEPT !.collected = TRUE] ELSE bfs[n]]

\* mutant of credited: a butterfly already collected is counted again
credited_noSkip(bfs, near) == Cardinality(near \cap DOMAIN bfs)

\* ButterflySystem.update: the kart.butterflies++ of one kart
credited(bfs, near) ==
  Cardinality({n \in DOMAIN bfs : n \in near /\ ~bfs[n].collected})

\* ButterflySystem.update: the collection loop from kart i on; counts are
\* the karts' butterflies counters
RECURSIVE collectLoop(_, _, _, _)
collectLoop(i, bfs, counts, nearOf) ==
  IF i > NumKarts - 1 THEN [butterflies |-> bfs, counts |-> counts]
  ELSE collectLoop(i + 1, collectFor(bfs, nearOf[i]),
                   [counts EXCEPT ![i] = @ + credited(bfs, nearOf[i])], nearOf)

\* ButterflySystem.update: nearOf[i] are the places within the collection
\* radius of kart i; then a cluster is spawned if one is due
butterflyUpdate(b, counts, nearOf, spawnDue) ==
  LET c == collectLoop(0, b.butterflies, counts, nearOf)
      marked == [b EXCEPT !.butterflies = c.butterflies]
  IN [sys |-> IF spawnDue THEN spawnCluster(marked) ELSE marked,
      counts |-> c.counts]

IsCollected(bf) == bf.collected
IsLeft(bf) == ~bf.collected
Ids(bfs) == {bfs[n].id : n \in DOMAIN bfs}

\* drainCollected: the ids returned and the system afterwards
drainCollected(b) ==
  [ids |-> Ids(SelectSeq(b.butterflies, IsCollected)),
   sys |-> [b EXCEPT !.butterflies = SelectSeq(b.butterflies, IsLeft)]]

\* getNewButterflies: this.butterflies.slice(knownCount)
getNewButterflies(b, knownCount) ==
  IF knownCount >= Len(b.butterflies) THEN <<>>
  ELSE SubSeq(b.butterflies, knownCount + 1, Len(b.butterflies))

\* SceneManager.addNewButterflies
addNewButterflies(sc, bfs) ==
  LET meshes == sc.butterflyMeshes \cup Ids(bfs)
  IN [butterflyMeshes |-> meshes, knownButterflyCount |-> Cardinality(meshes)]

\* SceneManager.removeButterflies
removeButterflies(sc, ids) == [sc EXCEPT !.butterflyMeshes = @ \ ids]

\* SceneManager.setupButterflies
setupButterflies(bfs) ==
  addNewButterflies([butterflyMeshes |-> {}, knownButterflyCount |-> 0], bfs)

\* the ItemSystem constructor: the ids pushed for the zones from the n-th
\* on, nextId being the id to give next
RECURSIVE boxIds(_, _, _)
boxIds(zones, n, nextId) ==
  IF n > Len(zones) THEN <<>>
  ELSE IF zones[n] # "item" THEN boxIds(zones, n + 1, nextId)
  ELSE [m \in 1..BoxesPerZone |-> nextId + m - 1]
         \o boxIds(zones, n + 1, nextId + BoxesPerZone)

Tracks == UNION {[1..n -> {"item", "drift"}] : n \in 0..MaxZones}

ButterflyInit ==
  /\ DriftIdle
  /\ LapIdle
  /\ RaceIdle
  /\ ItemIdle
  /\ TickIdle
  /\ SteerIdle
  /\ CallIdle
  /\ TurboIdle
  /\ AiIdle
  /\ bsys = NewButterflySystem
  /\ scene = setupButterflies(NewButterflySystem.butterflies)
  /\ \E zones \in Tracks : boxIssued = boxIds(zones, 1, 0)
  /\ blog = [op |-> "new", spawns |-> 0, counts |-> [i \in KartIds |-> 0],
             drained |-> 0, shared |-> FALSE]

\* what a kart can be near in a tick: nothing, or one of the butterflies
\* left to collect
Reach(bfs) == {{}} \cup {{n} : n \in {m \in DOMAIN bfs : ~bfs[m].collected}}

\* RaceManager.update: butterflySystem.update.  blog.counts are the karts'
\* butterflies counters; blog.drained counts the butterflies drainCollected
\* has removed, blog.shared tells that two karts were near one butterfly.
ButterflyUpdate ==
  /\ \E nearOf \in [KartIds -> Reach(bsys.butterflies)], spawnDue \in BOOLEAN :
       \E r \in {butterflyUpdate(bsys, blog.counts, nearOf, spawnDue)} :
         /\ spawnDue => blog.spawns < MaxSpawns
         /\ bsys' = r.sys
         /\ blog' = [op |-> "update",
                     spawns |-> IF spawnDue THEN blog.spawns + 1 ELSE blog.spawns,
                     counts |-> r.counts,
                     drained |-> blog.drained,
                     shared |-> \E i, j \in KartIds :
                                  i # j /\ nearOf[i] \cap nearOf[j] # {}]
  /\ UNCHANGED <<scene, boxIssued, notButterfly>>

\* gameLoop, rendering: sync the butterfly meshes
SyncMeshes ==
  /\ \E new \in {getNewButterflies(bsys, scene.knownButterflyCount)},
        drained \in {drainCollected(bsys)} :
       \E added \in {IF Len(new) > 0 THEN addNewButterflies(scene, new) ELSE scene} :
         /\ bsys' = drained.sys
         /\ scene' = IF drained.ids # {} THEN removeButterflies(added, drained.ids)
                     ELSE added
  /\ blog' = [blog EXCEPT !.op = "sync",
                          !.drained = @ + Cardinality(drainCollected(bsys).ids)]
  /\ UNCHANGED <<boxIssued, notButterfly>>

ButterflyNext == ButterflyUpdate \/ SyncMeshes

SpecButterfly == ButterflyInit /\ [][ButterflyNext]_vars

StrictlyIncreasing(ids) ==
  \A m, n \in DOMAIN ids : m < n => ids[m] < ids[n]

\* C18: the ids issued by the ButterflySystem (constructor and later
\* spawns, whatever was drained in between) and the ids given to the item
\* boxes are strictly increasing in the order of issue, hence pairwise
\* distinct: no id is ever reused.
C18_IdsNeverReused ==
  /\ StrictlyIncreasing(bsys.issued)
  /\ Cardinality(Ids(bsys.butterflies)) = Len(bsys.butterflies)
  /\ \A n \in DOMAIN bsys.butterflies : bsys.butterflies[n].id < bsys.nextId
  /\ StrictlyIncreasing(boxIssued)

\* C18 witness: a cluster was spawned after collected butterflies had been
\* drained from the list.
C18_Witness ==
  /\ blog.op = "update"
  /\ Len(bsys.issued) > InitClusters * ClusterSize
  /\ Len(bsys.butterflies) < Len(bsys.issued)
  /\ bsys.butterflies[Len(bsys.butterflies)].id = bsys.nextId - 1
  /\ Len(boxIssued) > BoxesPerZone

\* C19: after each frame's sync the scene's meshes are exactly the
\* uncollected butterflies of the ButterflySystem.
C19_MeshesAreLiveButterflies ==
  blog.op = "sync" =>
    scene.butterflyMeshes = Ids(SelectSeq(bsys.butterflies, IsLeft))

RECURSIVE SumTo(_, _)
SumTo(counts, i) == IF i < 0 THEN 0 ELSE counts[i] + SumTo(counts, i - 1)

\* C25: the karts' butterflies counters add up to the number of butterflies
\* marked collected so far, those still in the list and those drained.
C25_OneCreditEach ==
  SumTo(blog.counts, NumKarts - 1) =
    blog.drained + Len(SelectSeq(bsys.butterflies, IsCollected))

\* C25 witness: an update in which two karts were near the same butterfly;
\* the first kart was credited for it, and butterflies were drained before.
C25_Witness ==
  /\ blog.op = "update" /\ blog.shared
  /\ blog.drained > 0
  /\ blog.counts[0] > 0 /\ blog.counts[1] > 0

(***************************************************************************)
(* ai/ai-controller.ts and ai/difficulty.ts: the drift decision of one     *)
(* CPU kart over the ticks of a race, with the drift system of its kart's  *)
(* updatePhysics.  Times are in milliseconds; the tick is FIXED_DT, 1/60 s,*)
(* taken as 17 ms (a tick in a drift zone charges 25 ms, as in the game).  *)
(* Each tick is given the kart's speed, the steering the controller        *)
(* computed, whether pseudoRandom() fell below driftFrequency and whether  *)
(* the kart is in a drift zone.  The kart is not hit by a gust, and it     *)
(* enters or leaves a drift zone between drifts, not during one.           *)
(***************************************************************************)
AiDt == 17                                  \* FIXED_DT in ms
MaxDrifts == 1                              \* drifts followed to their release
AiDriftSpeed == 15000                       \* shouldDrift: this.kart.speed > 15
AiSharpTurn == 40                           \* shouldDrift: turnSharpness > 0.4
AiStraight == 15                            \* release: turnSharpness < 0.15
MaxTierTimes == <<0, 400, 800, 1200>>       \* [0, 0.4, 0.8, 1.2]
DIFFICULTY_PROFILES ==
  [chill |-> [maxDriftTier |-> 2], standard |-> [maxDriftTier |-> 3]]

AiSpeeds == {4000, 10000, 20000}            \* too slow to drift, slow for the AI, fast
AiSteers == {10, 30, 100}                   \* straight, a bend, a sharp turn

\* the AiController constructor, on a new kart.  Of raceTime and
\* driftStartT the controller reads the difference only, and only while
\* isDrifting: sinceStart is raceTime - driftStartT then, and 0 otherwise.
NewAiController(difficulty) ==
  [profile |-> DIFFICULTY_PROFILES[difficulty], isDrifting |-> FALSE,
   sinceStart |-> 0, drift |-> NewDriftBoost]

\* AiController.update, the drift decision: the controller after it and
\* input.drift
driftDecision(c, speed, steer, lucky) ==
  LET turnSharpness == Abs(steer)
      shouldDrift == turnSharpness > AiSharpTurn /\ speed > AiDriftSpeed /\ lucky
      begun == IF shouldDrift /\ ~c.isDrifting /\ ~isCharging(c.drift)
               THEN [c EXCEPT !.isDrifting = TRUE, !.sinceStart = 0]
               ELSE c
      chargeTime == begun.sinceStart
      stop == \/ chargeTime > MaxTierTimes[begun.profile.maxDriftTier + 1]
              \/ turnSharpness < AiStraight
  IN IF ~begun.isDrifting THEN [c |-> begun, drift |-> FALSE]
     ELSE IF stop
          THEN [c |-> [begun EXCEPT !.isDrifting = FALSE, !.sinceStart = 0],
                drift |-> FALSE]
          ELSE [c |-> begun, drift |-> TRUE]

\* RaceManager.update: this.raceTime += dt
advance(c) == IF c.isDrifting THEN [c EXCEPT !.sinceStart = @ + AiDt] ELSE c

\* RaceManager.update for the CPU kart: raceTime += dt, ai.update, then the
\* kart's updatePhysics with the controller's input
aiTick(c, speed, steer, lucky, inDriftZone) ==
  LET decided == driftDecision(advance(c), speed, steer, lucky)
  IN [decided.c EXCEPT
        !.drift = driftBlock(@, speed, steer, decided.drift, AiDt, inDriftZone)]

AiInit ==
  /\ DriftIdle
  /\ LapIdle
  /\ RaceIdle
  /\ ItemIdle
  /\ TickIdle
  /\ SteerIdle
  /\ CallIdle
  /\ TurboIdle
  /\ ButterflyIdle
  /\ \E difficulty \in DOMAIN DIFFICULTY_PROFILES : cpu = NewAiController(difficulty)
  /\ clog = [op |-> "new", released |-> FALSE, tier |-> 0, inDriftZone |-> FALSE,
             drifts |-> 0]

\* clog.released: the tick's updatePhysics released a charging drift, at
\* the tier clog.tier; clog.inDriftZone: the kart was in a drift zone;
\* clog.drifts: the drifts released so far
AiTick ==
  /\ clog.drifts < MaxDrifts
  /\ \E speed \in AiSpeeds, steer \in AiSteers, lucky \in BOOLEAN, inDriftZone \in BOOLEAN :
       \E held0 \in {driftDecision(advance(cpu), speed, steer, lucky).drift} :
         /\ isCharging(cpu.drift) => inDriftZone = clog.inDriftZone
         /\ cpu' = aiTick(cpu, speed, steer, lucky, inDriftZone)
         /\ clog' = [op |-> "tick",
                     released |-> ~held0 /\ isCharging(cpu.drift),
                     tier |-> cpu.drift.tier,
                     inDriftZone |-> inDriftZone,
                     drifts |-> IF ~held0 /\ isCharging(cpu.drift)
                                THEN clog.drifts + 1 ELSE clog.drifts]
  /\ UNCHANGED notAi

AiNext == AiTick

SpecAi == AiInit /\ [][AiNext]_vars

\* C27: a drift released by the kart of an AI controller has a tier within
\* the maxDriftTier of the controller's profile: under chill the tier at
\* the release is never 3.
C27_ReleaseWithinMaxTier ==
  (clog.op = "tick" /\ clog.released) => clog.tier <= cpu.profile.maxDriftTier

(***************************************************************************)
(* The DriftBoost object driven by any sequence of its operations.         *)
(***************************************************************************)
DriftInit ==
  /\ DriftIdle
  /\ LapIdle
  /\ RaceIdle
  /\ ItemIdle
  /\ TickIdle
  /\ SteerIdle
  /\ CallIdle
  /\ TurboIdle
  /\ ButterflyIdle
  /\ AiIdle

\* the history variables after an operation that turned the object into d
DriftStep(op, d, dt, inZone) ==
  /\ UNCHANGED notDrift
  /\ dpre' = Pre(drift)
  /\ dop' = op
  /\ drift' = d
  /\ held' = IF d.state # drift.state \/ op = "cancel" \/ d.state = "idle"
             THEN 0 ELSE held + dt
  /\ zoneSeen' = IF d.state # drift.state \/ op = "cancel" THEN FALSE
                 ELSE (zoneSeen \/ (inZone /\ op = "update"))

StartDrift ==
  \E steerDir \in {-1, 0, 1} :
    DriftStep("startDrift", startDrift(drift, steerDir), 0, FALSE)

Update ==
  /\ drift.state = "charging" => drift.chargeTime <= MaxCharge
  /\ \E dt \in Dts, inDriftZone \in BOOLEAN :
       DriftStep("update", update(drift, dt, inDriftZone), dt, inDriftZone)

Release == DriftStep("release", release(drift), 0, FALSE)

Cancel == DriftStep("cancel", cancel(drift), 0, FALSE)

DriftNext == StartDrift \/ Update \/ Release \/ Cancel

SpecDrift == DriftInit /\ [][DriftNext]_vars

(***************************************************************************)
(* Claims about the DriftBoost state machine (checked under SpecDrift).    *)
(***************************************************************************)

\* C1 (as stated): the tier never decreases while the machine stays in
\* 'charging', and the tier goes from a positive value back to 0 only by
\* cancel() or release().
C1_TierResetOnlyByCancelOrRelease ==
  /\ (dpre.state = "charging" /\ drift.state = "charging") => drift.tier >= dpre.tier
  /\ (dpre.tier > 0 /\ drift.tier = 0) => dop \in {"cancel", "release"}

\* C1 (amended): the tier never decreases while the machine stays in
\* 'charging'; it goes from a positive value back to 0 only by cancel() or by
\* the startDrift() that opens the next charging episode; release() and
\* update() never lower it (the tier of the released drift stays on the
\* object through boosting, cooldown and idle).
C1_TierMonotoneResetByCancelOrStart ==
  /\ (dpre.state = "charging" /\ drift.state = "charging") => drift.tier >= dpre.tier
  /\ (dpre.tier > 0 /\ drift.tier = 0) => dop \in {"cancel", "startDrift"}
  /\ dop \in {"release", "update"} => drift.tier >= dpre.tier

\* C1 witness: a startDrift has just cleared the tier 3 left by the previous
\* episode.
C1_Witness ==
  /\ dop = "startDrift" /\ dpre.tier = 3 /\ dpre.state = "idle"
  /\ drift.state = "charging" /\ drift.tier = 0

\* C2: full drift cycle.  Charging outside a drift zone for updates totalling
\* 1.06 s gives tier 3; release at tier 1/2/3 gives 'boosting' with
\* boostTimeLeft 0.7/1.1/1.5 s and multiplier 1.35; boosting lasts exactly
\* until the updates total the boost duration and is then followed by
\* 'cooldown' with 0.15 s left, which lasts until the updates total 0.15 s and
\* is then followed by 'idle'.
C2_FullDriftCycle ==
  /\ (drift.state = "charging" /\ ~zoneSeen /\ held >= 1060) => drift.tier = 3
  /\ (dop = "release" /\ dpre.state = "charging" /\ dpre.tier >= 1) =>
        /\ drift.state = "boosting"
        /\ drift.boostTimeLeft = <<700, 1100, 1500>>[dpre.tier]
        /\ speedMultiplier(drift) = 135
  /\ drift.state = "boosting" =>
        /\ held < <<700, 1100, 1500>>[drift.tier]
        /\ drift.boostTimeLeft = <<700, 1100, 1500>>[drift.tier] - held
  /\ (dpre.state = "boosting" /\ drift.state # "boosting") =>
        (drift.state = "cooldown" /\ drift.cooldownLeft = 150)
  /\ drift.state = "cooldown" => (held < 150 /\ drift.cooldownLeft = 150 - held)
  /\ (dpre.state = "cooldown" /\ drift.state # "cooldown") => drift.state = "idle"

\* C2 witness: the end of the scenario: idle again after a charge of exactly
\* 1.06 s outside a zone (tier 3), a boost that ran out after exactly 1.5 s
\* and a cooldown that ran out after exactly 0.15 s.
C2_Witness ==
  /\ drift.state = "idle" /\ dop = "update" /\ dpre.state = "cooldown"
  /\ drift.tier = 3 /\ drift.chargeTime = 1060
  /\ drift.boostTimeLeft = 0 /\ drift.cooldownLeft = 0

\* C9 (as stated): whenever the machine leaves 'charging', the operation was
\* release().
C9_OnlyReleaseLeavesCharging ==
  (dpre.state = "charging" /\ drift.state # "charging") => dop = "release"

\* C9 (amended): release() is the sole transition from 'charging' to
\* 'boosting'; the machine leaves 'charging' for 'cooldown' by release() at
\* tier 0 or by cancel(); update() and startDrift() never move it out of
\* 'charging'.
C9_ReleaseOrCancelLeavesCharging ==
  /\ (dpre.state = "charging" /\ drift.state = "boosting") => dop = "release"
  /\ (dpre.state = "charging" /\ drift.state \notin {"charging", "boosting"}) =>
        /\ drift.state = "cooldown"
        /\ \/ dop = "cancel"
           \/ dop = "release" /\ dpre.tier = 0
  /\ (dpre.state = "charging" /\ dop \in {"update", "startDrift"}) =>
        drift.state = "charging"

\* C9 witness: cancel() has just taken a charged drift out of 'charging'.
C9_Witness ==
  /\ dop = "cancel" /\ dpre.state = "charging" /\ dpre.tier >= 1
  /\ drift.state = "cooldown"

\* C21: cancel() in any state leaves 'cooldown' with cooldownLeft 0.15 s,
\* tier 0, chargeTime 0, driftDirection 0 and speed multiplier 1; the cooldown
\* it starts lasts until the updates since the cancel total 0.15 s and is
\* then followed by 'idle'.
C21_CancelForcesCooldown ==
  /\ dop = "cancel" =>
        /\ drift.state = "cooldown" /\ drift.cooldownLeft = 150
        /\ drift.tier = 0 /\ drift.chargeTime = 0 /\ drift.driftDirection = 0
        /\ speedMultiplier(drift) = 100
  /\ (drift.state = "cooldown" /\ drift.tier = 0 /\ drift.chargeTime = 0) =>
        (held < 150 /\ drift.cooldownLeft = 150 - held)
  /\ (dpre.state = "cooldown" /\ drift.state # "cooldown") =>
        (drift.state = "idle" /\ dop = "update")

\* C21 witness: cancel() has just interrupted a tier-3 boost.
C21_Witness ==
  /\ dop = "cancel" /\ dpre.state = "boosting" /\ dpre.tier = 3
  /\ drift.state = "cooldown" /\ drift.boostTimeLeft > 0

\* C22: an update in 'charging' adds dt, or 1.5 * dt inside a drift zone,
\* to chargeTime (so chargeTime is the sum of the dt while no update was in a
\* zone) and leaves tier at the highest of 1/2/3 whose threshold
\* 0.35/0.70/1.05 s is <= chargeTime, 0 if none; an update in any other
\* state changes neither chargeTime nor tier.
C22_ChargeAndTier ==
  /\ (dop = "update" /\ dpre.state = "charging") =>
        /\ drift.chargeTime - dpre.chargeTime \in
             {dt : dt \in Dts} \cup {(3 * dt) \div 2 : dt \in Dts}
        /\ ~zoneSeen => drift.chargeTime = held
        /\ zoneSeen => (held < drift.chargeTime /\ 2 * drift.chargeTime <= 3 * held)
        /\ drift.tier = IF drift.chargeTime >= 1050 THEN 3
                        ELSE IF drift.chargeTime >= 700 THEN 2
                        ELSE IF drift.chargeTime >= 350 THEN 1 ELSE 0
  /\ (dop = "update" /\ dpre.state # "charging") =>
        (drift.chargeTime = dpre.chargeTime /\ drift.tier = dpre.tier)

\* C22 witness: one update of 1.06 s took a fresh drift from tier 0 to tier 3.
C22_Witness ==
  /\ dop = "update" /\ dpre.state = "charging"
  /\ dpre.tier = 0 /\ dpre.chargeTime = 0
  /\ drift.tier = 3 /\ drift.chargeTime = 1060

====
